---- MODULE Spec2Model ----
(***************************************************************************)
(* Model of the matching engine: Order (engine/order.py), PriceLevel and   *)
(* OrderBook (engine/order_book.py) and MatchingEngine (engine/matcher.py). *)
(*                                                                         *)
(* Order objects live in the store `allOrders`, keyed by order_id; a heap  *)
(* entry (timestamp, order_id, order) and an entry of OrderBook.orders are *)
(* represented by the order_id, the timestamp and the object being read    *)
(* from the store.  Decimal prices and quantities are integers (a number   *)
(* of ticks / lots); wall-clock fields that no operation reads             *)
(* (updated_at, last_updated, trade_id, Trade.timestamp) are left out.     *)
(***************************************************************************)
EXTENDS Integers, Sequences, FiniteSets, TLC

\* ---- bounds of the model ------------------------------------------------
MaxOrders == 3
MaxQty == 2
MaxPrice == 2
MaxTime == 1
MaxListeners == 2

OrderIds == 1..MaxOrders
Quantities == 1..MaxQty
Prices == 1..MaxPrice
Times == 1..MaxTime
Symbols == {"BTC-USDT", "ETH-USDT"}
\* symbols orders are submitted for under Spec
SubmitSymbols == {"BTC-USDT"}

\* ---- enums (order.py) ---------------------------------------------------
MARKET == "market"
LIMIT == "limit"
IOC == "ioc"
FOK == "fok"
OrderType == {MARKET, LIMIT, IOC, FOK}

BUY == "buy"
SELL == "sell"
OrderSide == {BUY, SELL}

PENDING == "pending"
OPEN == "open"
PARTIALLY_FILLED == "partially_filled"
FILLED == "filled"
CANCELLED == "cancelled"
REJECTED == "rejected"
OrderStatus == {PENDING, OPEN, PARTIALLY_FILLED, FILLED, CANCELLED, REJECTED}

\* price=None of a market order
NoPrice == 0
\* a None return value
None == 0
\* a call that ended by raising ValueError
Raised == -1

VARIABLES
    order_books,   \* MatchingEngine.order_books : symbol -> OrderBook
    trades,        \* MatchingEngine.trades : list of Trade
    allOrders,     \* every Order object constructed so far : order_id -> Order
    admitted,      \* order_ids in the order in which process_order received them
    last,          \* the last engine call, what it returned, the
                   \* assignments to Order.status it made and the listener
                   \* invocations it made
    trade_listeners, \* MatchingEngine.trade_listeners : list of callbacks
    event_loop,    \* the call in progress, if any, and how far it has got: a
                   \* request handler on the server's asyncio event loop, or
                   \* a process_order call followed statement by statement
    response,      \* the status code of the last HTTP response of the server
    lone_level     \* a PriceLevel object a caller holds outside any book

vars == <<order_books, trades, allOrders, admitted, last, trade_listeners,
          event_loop, response, lone_level>>

\* ---- helpers ------------------------------------------------------------
min(a, b) == IF a <= b THEN a ELSE b
SetMin(S) == CHOOSE x \in S : \A y \in S : x <= y
SetMax(S) == CHOOSE x \in S : \A y \in S : x >= y
The(S) == CHOOSE x \in S : TRUE
EmptyMap == [k \in {} |-> None]
MapPut(f, k, v) == [x \in DOMAIN f \cup {k} |-> IF x = k THEN v ELSE f[x]]
MapDel(f, k) == [x \in DOMAIN f \ {k} |-> f[x]]
Range(s) == {s[i] : i \in 1..Len(s)}

\* No handler is running: the event loop is between two callbacks.
Idle == <<>>
\* The server has answered no request yet.
NoResponse == [status_code |-> None]

\* ---- Order (order.py) ---------------------------------------------------
\* Order.__init__: the fields set at construction
Order(order_id, symbol, side, order_type, quantity, price, created_at) ==
    [order_id |-> order_id, symbol |-> symbol, side |-> side,
     order_type |-> order_type, quantity |-> quantity, price |-> price,
     status |-> PENDING, created_at |-> created_at,
     filled_quantity |-> 0, remaining_quantity |-> quantity]

\* Order._validate with `<` where the code has `<=`
validate_strict(order_type, quantity, price) ==
    /\ ~(quantity < 0)
    /\ ~(order_type # MARKET /\ (price = NoPrice \/ price < 0))

\* Order._validate: TRUE when construction does not raise
validate(order_type, quantity, price) ==
    /\ ~(quantity <= 0)
    /\ ~(order_type # MARKET /\ (price = NoPrice \/ price <= 0))

\* Order.fill with `>=` where the code has `>`
fill_raises_at_equal(o, fill_quantity) == fill_quantity >= o.remaining_quantity

\* Order.fill raises ValueError
fill_raises(o, fill_quantity) == fill_quantity > o.remaining_quantity

\* Order.fill: raises (no change) when fill_quantity > remaining_quantity
\* Order.fill without the `self.filled_quantity += quantity`
fill_forget(o, fill_quantity) ==
    IF fill_quantity > o.remaining_quantity THEN o
    ELSE LET rem == o.remaining_quantity - fill_quantity
         IN [o EXCEPT !.remaining_quantity = rem,
                      !.status = IF rem = 0 THEN FILLED ELSE PARTIALLY_FILLED]

fill(o, fill_quantity) ==
    IF fill_quantity > o.remaining_quantity THEN o
    ELSE LET rem == o.remaining_quantity - fill_quantity
         IN [o EXCEPT !.filled_quantity = @ + fill_quantity,
                      !.remaining_quantity = rem,
                      !.status = IF rem = 0 THEN FILLED ELSE PARTIALLY_FILLED]

\* Order.cancel
cancel(o) ==
    IF o.status \in {FILLED, CANCELLED, REJECTED} THEN o
    ELSE [o EXCEPT !.status = CANCELLED]

\* ---- heapq on a list of (timestamp, order_id, order) tuples --------------
\* tuple comparison: timestamp first, then order_id (order_ids are distinct,
\* so the Order object itself is never compared)
EntryLess(os, a, b) ==
    \/ os[a].created_at < os[b].created_at
    \/ (os[a].created_at = os[b].created_at /\ a < b)

\* heapq._siftdown(heap, startpos, pos); positions are 0-based as in Python
RECURSIVE siftdown_loop(_, _, _, _, _)
siftdown_loop(os, heap, startpos, pos, newitem) ==
    IF pos > startpos
    THEN LET parentpos == (pos - 1) \div 2
             parent == heap[parentpos + 1]
         IN IF EntryLess(os, newitem, parent)
            THEN siftdown_loop(os, [heap EXCEPT ![pos + 1] = parent],
                               startpos, parentpos, newitem)
            ELSE [heap EXCEPT ![pos + 1] = newitem]
    ELSE [heap EXCEPT ![pos + 1] = newitem]

siftdown(os, heap, startpos, pos) ==
    siftdown_loop(os, heap, startpos, pos, heap[pos + 1])

\* heapq._siftup(heap, pos)
RECURSIVE siftup_loop(_, _, _, _, _)
siftup_loop(os, heap, startpos, pos, newitem) ==
    LET endpos == Len(heap)
        childpos == 2 * pos + 1
    IN IF childpos < endpos
       THEN LET rightpos == childpos + 1
                c == IF rightpos < endpos
                        /\ ~EntryLess(os, heap[childpos + 1], heap[rightpos + 1])
                     THEN rightpos ELSE childpos
            IN siftup_loop(os, [heap EXCEPT ![pos + 1] = heap[c + 1]],
                           startpos, c, newitem)
       ELSE siftdown(os, [heap EXCEPT ![pos + 1] = newitem], startpos, pos)

siftup(os, heap, pos) == siftup_loop(os, heap, pos, pos, heap[pos + 1])

heappush(os, heap, item) == siftdown(os, Append(heap, item), 0, Len(heap))

\* heapq.heappop: the heap left behind (the item returned is heap[0])
heappop(os, heap) ==
    LET lastelt == heap[Len(heap)]
        rest == SubSeq(heap, 1, Len(heap) - 1)
    IN IF rest # <<>> THEN siftup(os, [rest EXCEPT ![1] = lastelt], 0)
       ELSE rest

\* heapq.heapify: for i in reversed(range(n//2)): _siftup(x, i)
RECURSIVE heapify_loop(_, _, _)
heapify_loop(os, x, i) ==
    IF i < 0 THEN x ELSE heapify_loop(os, siftup(os, x, i), i - 1)

heapify(os, x) == heapify_loop(os, x, (Len(x) \div 2) - 1)

\* list.pop(i), 0-based
list_pop(s, i) == SubSeq(s, 1, i) \o SubSeq(s, i + 2, Len(s))

\* ---- PriceLevel (order_book.py) -----------------------------------------
PriceLevel(price) == [price |-> price, orders |-> <<>>, total_quantity |-> 0]

PriceLevel_add_order(os, L, id) ==
    [L EXCEPT !.orders = heappush(os, @, id),
              !.total_quantity = @ + os[id].remaining_quantity]

\* the first position holding order_id, or -1
PriceLevel_index(L, id) ==
    IF \E i \in 1..Len(L.orders) : L.orders[i] = id
    THEN SetMin({i \in 1..Len(L.orders) : L.orders[i] = id}) - 1
    ELSE -1

\* PriceLevel.remove_order without the `self.total_quantity -= ...`
PriceLevel_remove_order_keep_total(os, L, id) ==
    LET i == PriceLevel_index(L, id)
    IN IF i >= 0
       THEN [L EXCEPT !.orders = heapify(os, list_pop(@, i))]
       ELSE L

\* PriceLevel.remove_order without the `heapq.heapify(self.orders)`
PriceLevel_remove_order_unsorted(os, L, id) ==
    LET i == PriceLevel_index(L, id)
    IN IF i >= 0
       THEN [L EXCEPT !.orders = list_pop(@, i),
                      !.total_quantity = @ - os[id].remaining_quantity]
       ELSE L

PriceLevel_remove_order(os, L, id) ==
    LET i == PriceLevel_index(L, id)
    IN IF i >= 0
       THEN [L EXCEPT !.orders = heapify(os, list_pop(@, i)),
                      !.total_quantity = @ - os[id].remaining_quantity]
       ELSE L

get_oldest_order(L) == IF L.orders = <<>> THEN None ELSE L.orders[1]

PriceLevel_pop_oldest_order(os, L) ==
    IF L.orders = <<>> THEN L
    ELSE [L EXCEPT !.orders = heappop(os, @),
                   !.total_quantity = @ - os[L.orders[1]].remaining_quantity]

is_empty(L) == Len(L.orders) = 0

\* ---- OrderBook (order_book.py) -------------------------------------------
\* OrderBook.orders (order_id -> Order) is the set of its keys: the value
\* stored under a key is the Order object with that order_id.
OrderBook(symbol) ==
    [symbol |-> symbol, bids |-> EmptyMap, asks |-> EmptyMap, orders |-> {}]

side_map_swapped(book, side) == IF side = BUY THEN book.asks ELSE book.bids
side_map(book, side) == IF side = BUY THEN book.bids ELSE book.asks
set_side_map(book, side, m) ==
    IF side = BUY THEN [book EXCEPT !.bids = m] ELSE [book EXCEPT !.asks = m]

\* OrderBook.add_order without the DUPLICATE check
OrderBook_add_order_unchecked(os, book, id) ==
    IF os[id].status = OPEN
    THEN LET o == os[id]
             price_map == side_map(book, o.side)
             pm1 == IF o.price \notin DOMAIN price_map
                    THEN MapPut(price_map, o.price, PriceLevel(o.price))
                    ELSE price_map
             pm2 == [pm1 EXCEPT ![o.price] = PriceLevel_add_order(os, @, id)]
             b1 == set_side_map(book, o.side, pm2)
         IN [book |-> [b1 EXCEPT !.orders = @ \cup {id}], raised |-> FALSE]
    ELSE [book |-> book, raised |-> FALSE]

\* OrderBook.add_order: [book, raised]; raised is the DUPLICATE ValueError
OrderBook_add_order(os, book, id) ==
    IF id \in book.orders THEN [book |-> book, raised |-> TRUE]
    ELSE IF os[id].status = OPEN
    THEN LET o == os[id]
             price_map == side_map(book, o.side)
             pm1 == IF o.price \notin DOMAIN price_map
                    THEN MapPut(price_map, o.price, PriceLevel(o.price))
                    ELSE price_map
             pm2 == [pm1 EXCEPT ![o.price] = PriceLevel_add_order(os, @, id)]
             b1 == set_side_map(book, o.side, pm2)
         IN [book |-> [b1 EXCEPT !.orders = @ \cup {id}], raised |-> FALSE]
    ELSE [book |-> book, raised |-> FALSE]

\* OrderBook.remove_order without the `del price_map[order.price]`
OrderBook_remove_order_keep_level(os, book, id) ==
    IF id \notin book.orders THEN book
    ELSE LET o == os[id]
             price_map == side_map(book, o.side)
             pm1 == IF o.price \in DOMAIN price_map
                    THEN [price_map EXCEPT ![o.price] =
                            PriceLevel_remove_order(os, @, id)]
                    ELSE price_map
             b1 == set_side_map(book, o.side, pm1)
         IN [b1 EXCEPT !.orders = @ \ {id}]

\* OrderBook.remove_order: the book afterwards (the caller has the order)
OrderBook_remove_order(os, book, id) ==
    IF id \notin book.orders THEN book
    ELSE LET o == os[id]
             price_map == side_map(book, o.side)
             pm1 == IF o.price \in DOMAIN price_map
                    THEN LET price_level == PriceLevel_remove_order(os, price_map[o.price], id)
                         IN IF is_empty(price_level)
                            THEN MapDel(price_map, o.price)
                            ELSE [price_map EXCEPT ![o.price] = price_level]
                    ELSE price_map
             b1 == set_side_map(book, o.side, pm1)
         IN [b1 EXCEPT !.orders = @ \ {id}]

get_order(book, id) == IF id \in book.orders THEN id ELSE None

get_best_bid(book) ==
    IF DOMAIN book.bids = {} THEN None
    ELSE LET best_price == SetMax(DOMAIN book.bids)
         IN <<best_price, book.bids[best_price].total_quantity>>

get_best_ask(book) ==
    IF DOMAIN book.asks = {} THEN None
    ELSE LET best_price == SetMin(DOMAIN book.asks)
         IN <<best_price, book.asks[best_price].total_quantity>>

\* sorted(keys) where get_order_book_snapshot has sorted(keys, reverse=True)
RECURSIVE sorted_ascending(_)
sorted_ascending(S) ==
    IF S = {} THEN <<>>
    ELSE <<SetMin(S)>> \o sorted_ascending(S \ {SetMin(S)})

\* sorted(keys, reverse=True)
RECURSIVE sorted_reverse(_)
sorted_reverse(S) ==
    IF S = {} THEN <<>>
    ELSE <<SetMax(S)>> \o sorted_reverse(S \ {SetMax(S)})

\* sorted(keys)
RECURSIVE sorted_keys(_)
sorted_keys(S) ==
    IF S = {} THEN <<>>
    ELSE <<SetMin(S)>> \o sorted_keys(S \ {SetMin(S)})

\* str(Decimal): the decimal numeral of the value.
str(x) == ToString(x)

\* The body of one `for price in ...` loop of get_order_book_snapshot: a row
\* [str(price), str(total_quantity)] for every level whose total is positive.
RECURSIVE snapshot_rows(_, _, _)
snapshot_rows(price_map, prices, i) ==
    IF i > Len(prices) THEN <<>>
    ELSE LET price_level == price_map[prices[i]]
             rest == snapshot_rows(price_map, prices, i + 1)
         IN IF price_level.total_quantity > 0
            THEN <<(<<str(prices[i]), str(price_level.total_quantity)>>)>> \o rest
            ELSE rest

get_order_book_snapshot(book) ==
    [symbol |-> book.symbol,
     bids |-> snapshot_rows(book.bids, sorted_reverse(DOMAIN book.bids), 1),
     asks |-> snapshot_rows(book.asks, sorted_keys(DOMAIN book.asks), 1)]

\* One side of the get_bbo result: the dict {"price": ..., "quantity": ...},
\* or Python's None.
Quote(price, quantity) == [price |-> str(price), quantity |-> str(quantity)]
NoQuote == [none |-> TRUE]

\* get_bbo with min(self.bids.keys()) and max(self.asks.keys())
get_bbo_worst(book) ==
    [symbol |-> book.symbol,
     bid |-> IF DOMAIN book.bids # {}
             THEN LET best_bid_price == SetMin(DOMAIN book.bids)
                  IN IF best_bid_price # 0 /\ book.bids[best_bid_price].total_quantity > 0
                     THEN Quote(best_bid_price, book.bids[best_bid_price].total_quantity)
                     ELSE NoQuote
             ELSE NoQuote,
     ask |-> IF DOMAIN book.asks # {}
             THEN LET best_ask_price == SetMax(DOMAIN book.asks)
                  IN IF best_ask_price # 0 /\ book.asks[best_ask_price].total_quantity > 0
                     THEN Quote(best_ask_price, book.asks[best_ask_price].total_quantity)
                     ELSE NoQuote
             ELSE NoQuote]

\* OrderBook.get_bbo: `if best_bid_price and total_quantity > 0` is false for
\* a zero price as well as for a zero total.
get_bbo(book) ==
    [symbol |-> book.symbol,
     bid |-> IF DOMAIN book.bids # {}
             THEN LET best_bid_price == SetMax(DOMAIN book.bids)
                  IN IF best_bid_price # 0 /\ book.bids[best_bid_price].total_quantity > 0
                     THEN Quote(best_bid_price, book.bids[best_bid_price].total_quantity)
                     ELSE NoQuote
             ELSE NoQuote,
     ask |-> IF DOMAIN book.asks # {}
             THEN LET best_ask_price == SetMin(DOMAIN book.asks)
                  IN IF best_ask_price # 0 /\ book.asks[best_ask_price].total_quantity > 0
                     THEN Quote(best_ask_price, book.asks[best_ask_price].total_quantity)
                     ELSE NoQuote
             ELSE NoQuote]

\* ---- MatchingEngine (matcher.py) ----------------------------------------
\* Trade(...) with maker_order_id and taker_order_id exchanged
Trade_exchanged(symbol, price, quantity, maker_order_id, taker_order_id, aggressor_side) ==
    [symbol |-> symbol, price |-> price, quantity |-> quantity,
     maker_order_id |-> taker_order_id, taker_order_id |-> maker_order_id,
     aggressor_side |-> aggressor_side]

Trade(symbol, price, quantity, maker_order_id, taker_order_id, aggressor_side) ==
    [symbol |-> symbol, price |-> price, quantity |-> quantity,
     maker_order_id |-> maker_order_id, taker_order_id |-> taker_order_id,
     aggressor_side |-> aggressor_side]

\* one assignment to Order.status: the order, its status before and after
StatusWrite(order_id, from, to) == [order_id |-> order_id, from |-> from, to |-> to]

\* the opposite side's price map, its best-price extractor and the taker's
\* acceptance predicate, as set up at the top of every _match_*_order
opposite_map(book, side) == IF side = BUY THEN book.asks ELSE book.bids
set_opposite_map(book, side, m) ==
    IF side = BUY THEN [book EXCEPT !.asks = m] ELSE [book EXCEPT !.bids = m]
price_getter_worst(side, keys) == IF side = BUY THEN SetMax(keys) ELSE SetMin(keys)
price_getter(side, keys) == IF side = BUY THEN SetMin(keys) ELSE SetMax(keys)
price_valid_any(o, p) == TRUE
price_valid_strict(o, p) == IF o.side = BUY THEN p < o.price ELSE p > o.price
price_valid(o, p) == IF o.side = BUY THEN p <= o.price ELSE p >= o.price

\* the price a trade is executed at
trade_price_taker(order, resting_order) == order.price
trade_price(order, resting_order) == resting_order.price

\* The book and the Order objects as they stand between two statements of a
\* matching loop (os is rebuilt argument by argument, which TLC needs to
\* fingerprint a function that nested EXCEPTs produced).
MidPoint(book, os) == [book |-> book, os |-> [id \in DOMAIN os |-> os[id]]]

\* The matching loops.  st = [book, os, trades, writes, mids]: the order book,
\* the Order objects, the local list `trades`, the assignments to Order.status
\* made so far in the call and the points the call has passed through, in
\* program order; t is the incoming order's id;
\* priced is FALSE for the market loop, which has no price_valid test.
\* ({... : x \in {e}} binds x to the value of e, which is then computed once.)
\* the test of the inner `while`
inner_condition(st, t, best_price, priced) ==
    LET order == st.os[t]
        price_level == opposite_map(st.book, order.side)[best_price]
    IN /\ order.remaining_quantity > 0
       /\ ~is_empty(price_level)
       /\ (priced => price_valid(order, best_price))

\* one pass through the body of the inner `while`
inner_body(st, t, best_price) ==
    LET order == st.os[t]
        price_map == opposite_map(st.book, order.side)
        price_level == price_map[best_price]
        r == get_oldest_order(price_level)
        resting_order == st.os[r]
        fill_quantity == min(order.remaining_quantity,
                             resting_order.remaining_quantity)
        trade == Trade(order.symbol, trade_price(order, resting_order),
                       fill_quantity, r, t, order.side)
    IN The({LET lvl == IF os2[r].status = FILLED
                       THEN PriceLevel_pop_oldest_order(os2, price_level)
                       ELSE price_level
                book1 == set_opposite_map(st.book, order.side,
                            [price_map EXCEPT ![best_price] = lvl])
            IN [book |-> book1, os |-> os2,
                trades |-> Append(st.trades, trade),
                writes |-> st.writes \o
                   <<StatusWrite(t, order.status, os2[t].status),
                     StatusWrite(r, resting_order.status, os2[r].status)>>,
                mids |-> st.mids \o
                   <<MidPoint(st.book, [st.os EXCEPT ![t] = os2[t]]),
                     MidPoint(st.book, os2)>> \o
                   (IF os2[r].status = FILLED
                    THEN <<MidPoint(book1, os2)>> ELSE <<>>)]
            : os2 \in {[st.os EXCEPT ![t] = fill(@, fill_quantity),
                                     ![r] = fill(@, fill_quantity)]}})

RECURSIVE match_level(_, _, _, _)
match_level(st0, t, best_price, priced) ==
    The({IF inner_condition(st, t, best_price, priced)
         THEN match_level(inner_body(st, t, best_price), t, best_price, priced)
         ELSE st
         : st \in {st0}})

\* the test of the outer `while`, with the `break` of the priced loops
outer_condition(st, t, priced) ==
    LET order == st.os[t]
        price_map == opposite_map(st.book, order.side)
    IN /\ order.remaining_quantity > 0
       /\ DOMAIN price_map # {}
       /\ ~(priced /\ ~price_valid(order, price_getter(order.side, DOMAIN price_map)))

\* best_price = price_getter(price_map.keys())
best_price_of(st, t) ==
    price_getter(st.os[t].side, DOMAIN opposite_map(st.book, st.os[t].side))

\* the outer loop without the `del price_map[best_price]`
remove_empty_level_never(st, t, best_price) == st

\* `if price_level.is_empty(): del price_map[best_price]`
remove_empty_level(st, t, best_price) ==
    LET side == st.os[t].side
        price_map == opposite_map(st.book, side)
    IN IF is_empty(price_map[best_price])
       THEN The({[st EXCEPT !.book = book2,
                            !.mids = Append(@, MidPoint(book2, st.os))]
                 : book2 \in {set_opposite_map(st.book, side,
                                               MapDel(price_map, best_price))}})
       ELSE st

RECURSIVE match_loop(_, _, _)
match_loop(st0, t, priced) ==
    The({IF outer_condition(st, t, priced)
         THEN The({match_loop(remove_empty_level(st1, t, best_price_of(st, t)),
                              t, priced)
                   : st1 \in {match_level(st, t, best_price_of(st, t), priced)}})
         ELSE st
         : st \in {st0}})

set_status(os, t, status) ==
    [id \in DOMAIN os |-> IF id = t THEN [os[id] EXCEPT !.status = status] ELSE os[id]]
\* the writes of a call after its final `order.status = status`
final_write(st, t, status) ==
    Append(st.writes, StatusWrite(t, st.os[t].status, status))

\* every _match_*_order yields [book, os, trades, writes, raised, mids]
match_market_order(st, t) ==
    The({[book |-> st1.book,
          os |-> IF st1.os[t].remaining_quantity > 0
                 THEN set_status(st1.os, t, PARTIALLY_FILLED) ELSE st1.os,
          trades |-> st1.trades,
          writes |-> IF st1.os[t].remaining_quantity > 0
                     THEN final_write(st1, t, PARTIALLY_FILLED) ELSE st1.writes,
          raised |-> FALSE, mids |-> st1.mids]
         : st1 \in {match_loop(st, t, FALSE)}})

\* _match_limit_order without the `order.status = OrderStatus.OPEN`
match_limit_order_keep_status(st, t) ==
    The({IF st1.os[t].remaining_quantity > 0
         THEN LET a == OrderBook_add_order(st1.os, st1.book, t)
              IN [book |-> a.book, os |-> st1.os, trades |-> st1.trades,
                  writes |-> st1.writes, raised |-> a.raised, mids |-> st1.mids]
         ELSE [book |-> st1.book, os |-> st1.os, trades |-> st1.trades,
               writes |-> st1.writes, raised |-> FALSE, mids |-> st1.mids]
         : st1 \in {match_loop(st, t, TRUE)}})

\* _match_limit_order without the `if order.remaining_quantity > Decimal("0")`
match_limit_order_rests_filled(st, t) ==
    The({LET os1 == set_status(st1.os, t, OPEN)
             a == OrderBook_add_order(os1, st1.book, t)
         IN [book |-> a.book, os |-> os1, trades |-> st1.trades,
             writes |-> final_write(st1, t, OPEN), raised |-> a.raised,
             mids |-> Append(st1.mids, MidPoint(st1.book, os1))]
         : st1 \in {match_loop(st, t, TRUE)}})

match_limit_order(st, t) ==
    The({IF st1.os[t].remaining_quantity > 0
         THEN LET os1 == set_status(st1.os, t, OPEN)
                  a == OrderBook_add_order(os1, st1.book, t)
              IN [book |-> a.book, os |-> os1, trades |-> st1.trades,
                  writes |-> final_write(st1, t, OPEN), raised |-> a.raised,
                  mids |-> Append(st1.mids, MidPoint(st1.book, os1))]
         ELSE [book |-> st1.book, os |-> st1.os, trades |-> st1.trades,
               writes |-> st1.writes, raised |-> FALSE, mids |-> st1.mids]
         : st1 \in {match_loop(st, t, TRUE)}})

\* _match_ioc_order without the final `order.status = OrderStatus.CANCELLED`
match_ioc_order_keep_status(st, t) ==
    The({[book |-> st1.book, os |-> st1.os, trades |-> st1.trades,
          writes |-> st1.writes, raised |-> FALSE, mids |-> st1.mids]
         : st1 \in {match_loop(st, t, TRUE)}})

match_ioc_order(st, t) ==
    The({[book |-> st1.book,
          os |-> IF st1.os[t].remaining_quantity > 0
                 THEN set_status(st1.os, t, CANCELLED) ELSE st1.os,
          trades |-> st1.trades,
          writes |-> IF st1.os[t].remaining_quantity > 0
                     THEN final_write(st1, t, CANCELLED) ELSE st1.writes,
          raised |-> FALSE, mids |-> st1.mids]
         : st1 \in {match_loop(st, t, TRUE)}})

\* sorted(price_map.keys()): ascending, for either side
RECURSIVE sorted(_)
sorted(S) == IF S = {} THEN <<>> ELSE <<SetMin(S)>> \o sorted(S \ {SetMin(S)})

RECURSIVE can_fill_walk(_, _, _, _)
can_fill_walk(order, price_map, price_levels, remaining_quantity) ==
    IF price_levels = <<>> THEN FALSE
    ELSE LET price == Head(price_levels)
         IN IF ~price_valid(order, price) THEN FALSE
            ELSE LET available_quantity == price_map[price].total_quantity
                 IN IF remaining_quantity <= available_quantity THEN TRUE
                    ELSE can_fill_walk(order, price_map, Tail(price_levels),
                                       remaining_quantity - available_quantity)

can_fully_fill_order(order, order_book) ==
    LET price_map == opposite_map(order_book, order.side)
    IN can_fill_walk(order, price_map, sorted(DOMAIN price_map), order.quantity)

match_fok_order(st, t) ==
    IF can_fully_fill_order(st.os[t], st.book)
    THEN The({[book |-> st1.book, os |-> st1.os, trades |-> st1.trades,
               writes |-> st1.writes, raised |-> FALSE, mids |-> st1.mids]
              : st1 \in {match_loop(st, t, TRUE)}})
    ELSE [book |-> st.book, os |-> set_status(st.os, t, CANCELLED),
          trades |-> <<>>, writes |-> final_write(st, t, CANCELLED),
          raised |-> FALSE, mids |-> st.mids]

\* MatchingEngine.get_order_book: order_books after the get-or-create
\* get_order_book without the `if symbol not in self.order_books`
get_order_book_fresh(books, symbol) ==
    IF symbol \notin DOMAIN books THEN MapPut(books, symbol, OrderBook(symbol))
    ELSE [books EXCEPT ![symbol] = OrderBook(symbol)]

get_order_book(books, symbol) ==
    IF symbol \notin DOMAIN books THEN MapPut(books, symbol, OrderBook(symbol))
    ELSE books

\* the dispatch on order.order_type in process_order (lines 74-81)
match_order(st, t) ==
    IF st.os[t].order_type = MARKET THEN match_market_order(st, t)
    ELSE IF st.os[t].order_type = LIMIT THEN match_limit_order(st, t)
    ELSE IF st.os[t].order_type = IOC THEN match_ioc_order(st, t)
    ELSE match_fok_order(st, t)

\* MatchingEngine.process_order on the Order objects os, for order t
process_order(books, os, t) ==
    LET books1 == get_order_book(books, os[t].symbol)
        st == [book |-> books1[os[t].symbol], os |-> os, trades |-> <<>>,
               writes |-> <<>>, mids |-> <<>>]
    IN [books |-> books1, m |-> match_order(st, t)]

\* ---- the engine as a state machine --------------------------------------
Init ==
    /\ order_books = EmptyMap
    /\ trades = <<>>
    /\ allOrders = EmptyMap
    /\ admitted = <<>>
    /\ last = [op |-> "init", trades |-> <<>>, result |-> None, writes |-> <<>>]
    /\ trade_listeners = <<>>
    /\ event_loop = Idle
    /\ response = NoResponse
    /\ lone_level = PriceLevel(SetMin(Prices))

\* ---- trade listeners (matcher.py) ---------------------------------------
\* A callback is known by its identity and by whether calling it raises.
Delivery(callback, trade) == [callback |-> callback, trade |-> trade]

\* MatchingEngine._notify_trade from the i-th listener on: the invocations
\* made (the raising one included) and whether one raised
\* _notify_trade walking the listeners from the last registered to the first
RECURSIVE notify_trade_reversed(_, _, _, _)
notify_trade_reversed(listeners, trade, i, delivered) ==
    LET j == Len(listeners) - i + 1
    IN IF i > Len(listeners) THEN [delivered |-> delivered, raised |-> FALSE]
       ELSE IF listeners[j].raises
       THEN [delivered |-> Append(delivered, Delivery(listeners[j], trade)),
             raised |-> TRUE]
       ELSE notify_trade_reversed(listeners, trade, i + 1,
                                  Append(delivered, Delivery(listeners[j], trade)))

RECURSIVE notify_trade(_, _, _, _)
notify_trade(listeners, trade, i, delivered) ==
    IF i > Len(listeners) THEN [delivered |-> delivered, raised |-> FALSE]
    ELSE IF listeners[i].raises
    THEN [delivered |-> Append(delivered, Delivery(listeners[i], trade)),
          raised |-> TRUE]
    ELSE notify_trade(listeners, trade, i + 1,
                      Append(delivered, Delivery(listeners[i], trade)))

\* the loop `for trade in trades` of process_order from the i-th trade on:
\* the trades appended to MatchingEngine.trades, the invocations made and
\* whether a listener raised out of the loop
NotifyNone == [appended |-> <<>>, delivered |-> <<>>, raised |-> FALSE]
RECURSIVE notify_loop(_, _, _, _)
notify_loop(listeners, ts, i, acc) ==
    IF i > Len(ts) THEN acc
    ELSE The({IF n.raised
              THEN [appended |-> Append(acc.appended, ts[i]),
                    delivered |-> n.delivered, raised |-> TRUE]
              ELSE notify_loop(listeners, ts, i + 1,
                               [appended |-> Append(acc.appended, ts[i]),
                                delivered |-> n.delivered, raised |-> FALSE])
              : n \in {notify_trade(listeners, ts[i], 1, acc.delivered)}})

\* MatchingEngine.add_trade_listener(callback)
AddTradeListener(callback) ==
    /\ Len(trade_listeners) < MaxListeners
    /\ trade_listeners' = Append(trade_listeners, callback)
    /\ last' = [op |-> "add_trade_listener", trades |-> <<>>, result |-> None,
                writes |-> <<>>]
    /\ UNCHANGED <<order_books, trades, allOrders, admitted, event_loop, response, lone_level>>

\* A caller constructs a fresh Order (uuid order_id, created_at = the
\* construction time) and passes it to process_order.
\* What MatchingEngine.process_order leaves behind once _match_*_order has
\* yielded r: the trade log and the listeners' invocations (lines 84-86),
\* and the value returned.
ProcessOrderReturns(r, id, symbol) ==
    /\ order_books' = [r.books EXCEPT ![symbol] = r.m.book]
    /\ allOrders' = r.m.os
    /\ admitted' = Append(admitted, id)
    /\ \E n \in {IF r.m.raised THEN NotifyNone
                  ELSE notify_loop(trade_listeners, r.m.trades, 1, NotifyNone)} :
          /\ trades' = trades \o n.appended
          /\ last' = [op |-> "process_order",
                      trades |-> IF r.m.raised \/ n.raised THEN <<>>
                                 ELSE r.m.trades,
                      result |-> IF r.m.raised \/ n.raised THEN Raised ELSE id,
                      writes |-> r.m.writes,
                      matched |-> r.m.trades,
                      delivered |-> n.delivered]
    /\ UNCHANGED trade_listeners

SubmitOrder(id, symbol, side, order_type, quantity, price, created_at) ==
    /\ id \notin DOMAIN allOrders
    /\ validate(order_type, quantity, price)
    /\ \E r \in {process_order(order_books,
                MapPut(allOrders, id,
                       Order(id, symbol, side, order_type, quantity, price, created_at)),
                id)} :
          ProcessOrderReturns(r, id, symbol)
    /\ UNCHANGED <<event_loop, response, lone_level>>

\* the assignment to Order.status that Order.cancel makes on o, if any
cancel_writes(o) ==
    IF o.status \in {FILLED, CANCELLED, REJECTED} THEN <<>>
    ELSE <<StatusWrite(o.order_id, o.status, CANCELLED)>>

\* cancel_order that looks the book up with get_order_book, creating it
CancelOrder_create(order_id, symbol) ==
    /\ LET books1 == get_order_book(order_books, symbol)
           order == get_order(books1[symbol], order_id)
       IN IF order # None
          THEN /\ order_books' = [books1 EXCEPT ![symbol] =
                                    OrderBook_remove_order(allOrders, @, order_id)]
               /\ allOrders' = [allOrders EXCEPT ![order_id] = cancel(@)]
               /\ last' = [op |-> "cancel_order", trades |-> <<>>,
                           result |-> order,
                           writes |-> cancel_writes(allOrders[order_id])]
          ELSE /\ order_books' = books1
               /\ UNCHANGED allOrders
               /\ last' = [op |-> "cancel_order", trades |-> <<>>,
                           result |-> None, writes |-> <<>>]
    /\ UNCHANGED <<trades, admitted, trade_listeners, event_loop, response, lone_level>>

\* MatchingEngine.cancel_order(order_id, symbol); `last` keeps the value
\* returned (the order, or None) and the status assignments made
CancelOrderCall(order_id, symbol) ==
    /\ IF symbol \notin DOMAIN order_books
       THEN /\ UNCHANGED <<order_books, allOrders>>
            /\ last' = [op |-> "cancel_order", trades |-> <<>>, result |-> None,
                        writes |-> <<>>]
       ELSE LET order_book == order_books[symbol]
                order == get_order(order_book, order_id)
            IN IF order # None
               THEN /\ order_books' = [order_books EXCEPT ![symbol] =
                                         OrderBook_remove_order(allOrders, @, order_id)]
                    /\ allOrders' = [allOrders EXCEPT ![order_id] = cancel(@)]
                    /\ last' = [op |-> "cancel_order", trades |-> <<>>,
                                result |-> order,
                                writes |-> cancel_writes(allOrders[order_id])]
               ELSE /\ UNCHANGED <<order_books, allOrders>>
                    /\ last' = [op |-> "cancel_order", trades |-> <<>>,
                                result |-> None, writes |-> <<>>]
    /\ UNCHANGED <<trades, admitted, trade_listeners>>

\* cancel_order called on the engine directly
CancelOrder(order_id, symbol) ==
    /\ CancelOrderCall(order_id, symbol)
    /\ UNCHANGED <<event_loop, response, lone_level>>

PricesOf(order_type) == IF order_type = MARKET THEN {NoPrice} ELSE Prices

Submit ==
    \E id \in OrderIds, symbol \in SubmitSymbols, side \in OrderSide,
       order_type \in OrderType, quantity \in Quantities, created_at \in Times :
        \E price \in PricesOf(order_type) :
            SubmitOrder(id, symbol, side, order_type, quantity, price, created_at)

Cancel ==
    \E order_id \in OrderIds, symbol \in Symbols : CancelOrder(order_id, symbol)

Next == Submit \/ Cancel

Spec == Init /\ [][Next]_vars

\* The same engine driven by LIMIT and MARKET orders at one price whose
\* construction times differ: an Order is constructed by the caller, at any
\* time before it is passed to process_order.
TimedTypes == {LIMIT, MARKET}
TimedPricesOf(order_type) == IF order_type = MARKET THEN {NoPrice} ELSE {SetMin(Prices)}
TimesWide == 1..(MaxTime + 1)

SubmitTimed ==
    \E id \in OrderIds, symbol \in SubmitSymbols, side \in OrderSide,
       order_type \in TimedTypes, quantity \in Quantities, created_at \in TimesWide :
        \E price \in TimedPricesOf(order_type) :
            SubmitOrder(id, symbol, side, order_type, quantity, price, created_at)

NextTimed == SubmitTimed \/ Cancel

SpecTimed == Init /\ [][NextTimed]_vars

\* The same engine driven by LIMIT and MARKET orders at one price on either
\* symbol.
SubmitAnySymbol ==
    \E id \in OrderIds, symbol \in Symbols, side \in OrderSide,
       order_type \in TimedTypes, quantity \in Quantities, created_at \in Times :
        \E price \in TimedPricesOf(order_type) :
            SubmitOrder(id, symbol, side, order_type, quantity, price, created_at)

NextSymbols == SubmitAnySymbol \/ Cancel

SpecSymbols == Init /\ [][NextSymbols]_vars

\* The same engine with trade listeners registered at any time, driven by
\* LIMIT and MARKET orders at one price on one symbol.
Callbacks == [id : 1..MaxListeners, raises : BOOLEAN]

AddListener == \E callback \in Callbacks : AddTradeListener(callback)

SubmitOnePrice ==
    \E id \in OrderIds, symbol \in SubmitSymbols, side \in OrderSide,
       order_type \in TimedTypes, quantity \in Quantities, created_at \in Times :
        \E price \in TimedPricesOf(order_type) :
            SubmitOrder(id, symbol, side, order_type, quantity, price, created_at)

NextListeners == AddListener \/ SubmitOnePrice \/ Cancel

SpecListeners == Init /\ [][NextListeners]_vars

\* The same engine when a caller passes to process_order an Order it has
\* passed before: the object comes with the status and the quantities the
\* earlier calls left it with.
MaxResubmits == 1
Resubmits == Len(admitted) - Cardinality(Range(admitted))

ResubmitOrder(id) ==
    /\ id \in DOMAIN allOrders
    /\ Resubmits < MaxResubmits
    /\ \E r \in {process_order(order_books, allOrders, id)} :
          ProcessOrderReturns(r, id, allOrders[id].symbol)
    /\ UNCHANGED <<event_loop, response, lone_level>>

Resubmit == \E id \in OrderIds : ResubmitOrder(id)

NextResubmit == SubmitOnePrice \/ Cancel \/ Resubmit

SpecResubmit == Init /\ [][NextResubmit]_vars

\* process_order followed through its matching loops, one loop test at a
\* time, for the order types whose match is the two nested loops alone.
\* The frame keeps the locals of the call: `trades`, the status assignments
\* made, and the price of the level the inner loop is working on (NoPrice
\* between two passes of the outer loop).
LoopTypes == {MARKET, LIMIT, IOC}

Frame == event_loop[1]
\* the book, the Order objects and the locals as the running call sees them
FrameState ==
    [book |-> order_books[Frame.symbol], os |-> allOrders,
     trades |-> Frame.trades, writes |-> Frame.writes, mids |-> <<>>]

\* what a pass through a loop leaves: book and orders go back to the
\* engine's objects, the locals to the frame
LoopStep(st, level) ==
    /\ order_books' = [order_books EXCEPT ![Frame.symbol] = st.book]
    /\ allOrders' = st.os
    /\ event_loop' = <<[Frame EXCEPT !.trades = st.trades, !.writes = st.writes,
                                     !.level = level]>>
    /\ UNCHANGED <<trades, admitted, last, trade_listeners, response, lone_level>>

\* process_order is called with a fresh order: lines 70-71 and the locals of
\* _match_*_order
ProcessOrderEnter(id, symbol, side, order_type, quantity, price, created_at) ==
    /\ event_loop = Idle
    /\ id \notin DOMAIN allOrders
    /\ validate(order_type, quantity, price)
    /\ order_books' = get_order_book(order_books, symbol)
    /\ allOrders' = MapPut(allOrders, id,
                           Order(id, symbol, side, order_type, quantity, price, created_at))
    /\ event_loop' = <<[handler |-> "process_order", order_id |-> id,
                        symbol |-> symbol, priced |-> order_type # MARKET,
                        level |-> NoPrice, trades |-> <<>>, writes |-> <<>>]>>
    /\ UNCHANGED <<trades, admitted, last, trade_listeners, response, lone_level>>

\* the outer `while` test holds: the best level is taken
OuterIteration ==
    /\ event_loop # Idle
    /\ Frame.level = NoPrice
    /\ outer_condition(FrameState, Frame.order_id, Frame.priced)
    /\ LoopStep(FrameState, best_price_of(FrameState, Frame.order_id))

\* the inner `while` test holds: one trade
InnerIteration ==
    /\ event_loop # Idle
    /\ Frame.level # NoPrice
    /\ inner_condition(FrameState, Frame.order_id, Frame.level, Frame.priced)
    /\ LoopStep(inner_body(FrameState, Frame.order_id, Frame.level), Frame.level)

\* the inner `while` test fails: the level is deleted if it is empty, and
\* control goes back to the outer test
OuterIterationEnd ==
    /\ event_loop # Idle
    /\ Frame.level # NoPrice
    /\ ~inner_condition(FrameState, Frame.order_id, Frame.level, Frame.priced)
    /\ LoopStep(remove_empty_level(FrameState, Frame.order_id, Frame.level), NoPrice)

\* the outer `while` test fails: the rest of _match_*_order and of
\* process_order
ProcessOrderExit ==
    /\ event_loop # Idle
    /\ Frame.level = NoPrice
    /\ ~outer_condition(FrameState, Frame.order_id, Frame.priced)
    /\ ProcessOrderReturns([books |-> order_books,
                            m |-> match_order(FrameState, Frame.order_id)],
                           Frame.order_id, Frame.symbol)
    /\ event_loop' = Idle
    /\ UNCHANGED <<response, lone_level>>

EnterLoops ==
    \E id \in OrderIds, symbol \in SubmitSymbols, side \in OrderSide,
       order_type \in LoopTypes, quantity \in Quantities, created_at \in Times :
        \E price \in PricesOf(order_type) :
            ProcessOrderEnter(id, symbol, side, order_type, quantity, price, created_at)

LoopProgress == OuterIteration \/ InnerIteration \/ OuterIterationEnd \/ ProcessOrderExit

NextLoops == EnterLoops \/ LoopProgress

\* A call in progress keeps executing: weak fairness on its steps.
SpecLoops == Init /\ [][NextLoops]_vars /\ WF_vars(LoopProgress)

\* An Order object on its own: a caller constructs it from any quantity and
\* price, then calls fill and cancel on it.
AnyQuantities == -1..MaxQty
AnyPrices == -1..MaxPrice
FillQuantities == 1..(MaxQty + 1)

\* Order(...): the object, or ValueError out of _validate
NewOrder(id, symbol, side, order_type, quantity, price, created_at) ==
    /\ allOrders = EmptyMap
    /\ IF validate(order_type, quantity, price)
       THEN /\ allOrders' = MapPut(allOrders, id,
                    Order(id, symbol, side, order_type, quantity, price, created_at))
            /\ last' = [op |-> "Order", trades |-> <<>>, result |-> id,
                        writes |-> <<>>]
       ELSE /\ UNCHANGED allOrders
            /\ last' = [op |-> "Order", trades |-> <<>>, result |-> Raised,
                        writes |-> <<>>]
    /\ UNCHANGED <<order_books, trades, admitted, trade_listeners, event_loop, response, lone_level>>

\* order.fill(fill_quantity, fill_price)
OrderFill(id, fill_quantity) ==
    /\ id \in DOMAIN allOrders
    /\ IF fill_raises(allOrders[id], fill_quantity)
       THEN /\ UNCHANGED allOrders
            /\ last' = [op |-> "fill", trades |-> <<>>, result |-> Raised,
                        writes |-> <<>>]
       ELSE /\ allOrders' = [allOrders EXCEPT ![id] = fill(@, fill_quantity)]
            /\ last' = [op |-> "fill", trades |-> <<>>, result |-> None,
                        writes |-> <<StatusWrite(id, allOrders[id].status,
                                                 fill(allOrders[id], fill_quantity).status)>>]
    /\ UNCHANGED <<order_books, trades, admitted, trade_listeners, event_loop, response, lone_level>>

\* order.cancel(); result is the bool returned (True = 1, False = 0)
OrderCancel(id) ==
    /\ id \in DOMAIN allOrders
    /\ allOrders' = [allOrders EXCEPT ![id] = cancel(@)]
    /\ last' = [op |-> "cancel", trades |-> <<>>,
                result |-> IF cancel_writes(allOrders[id]) # <<>> THEN 1 ELSE 0,
                writes |-> cancel_writes(allOrders[id])]
    /\ UNCHANGED <<order_books, trades, admitted, trade_listeners, event_loop, response, lone_level>>

Construct ==
    \E id \in OrderIds, symbol \in SubmitSymbols, side \in OrderSide,
       order_type \in OrderType, quantity \in AnyQuantities, price \in AnyPrices,
       created_at \in Times :
        NewOrder(id, symbol, side, order_type, quantity, price, created_at)

Fill == \E id \in OrderIds, fill_quantity \in FillQuantities : OrderFill(id, fill_quantity)

CancelObject == \E id \in OrderIds : OrderCancel(id)

NextOrder == Construct \/ Fill \/ CancelObject

SpecOrder == Init /\ [][NextOrder]_vars

\* An OrderBook on its own: a caller constructs LIMIT orders, sets their status
\* (OPEN, or leaves PENDING) and calls add_order and remove_order on the book
\* of the symbol.
MakeOrder(id, symbol, side, quantity, price, created_at, status) ==
    /\ id \notin DOMAIN allOrders
    /\ validate(LIMIT, quantity, price)
    /\ allOrders' = MapPut(allOrders, id,
            [Order(id, symbol, side, LIMIT, quantity, price, created_at)
                EXCEPT !.status = status])
    /\ last' = [op |-> "Order", trades |-> <<>>, result |-> id, writes |-> <<>>]
    /\ UNCHANGED <<order_books, trades, admitted, trade_listeners, event_loop, response, lone_level>>

\* get_order_book(order.symbol).add_order(order); result Raised is DUPLICATE
BookAdd(id) ==
    /\ id \in DOMAIN allOrders
    /\ \E books1 \in {get_order_book(order_books, allOrders[id].symbol)} :
         \E a \in {OrderBook_add_order(allOrders, books1[allOrders[id].symbol], id)} :
            /\ order_books' = [books1 EXCEPT ![allOrders[id].symbol] = a.book]
            /\ last' = [op |-> "add_order", trades |-> <<>>,
                        result |-> IF a.raised THEN Raised ELSE None,
                        writes |-> <<>>]
    /\ UNCHANGED <<trades, allOrders, admitted, trade_listeners, event_loop, response, lone_level>>

\* get_order_book(symbol).remove_order(order_id); result is the order or None
BookRemove(order_id, symbol) ==
    /\ \E books1 \in {get_order_book(order_books, symbol)} :
            /\ order_books' = [books1 EXCEPT ![symbol] =
                                 OrderBook_remove_order(allOrders, @, order_id)]
            /\ last' = [op |-> "remove_order", trades |-> <<>>,
                        result |-> get_order(books1[symbol], order_id),
                        writes |-> <<>>]
    /\ UNCHANGED <<trades, allOrders, admitted, trade_listeners, event_loop, response, lone_level>>

Make ==
    \E id \in OrderIds, symbol \in SubmitSymbols, side \in OrderSide,
       quantity \in Quantities, price \in Prices, created_at \in Times,
       status \in {PENDING, OPEN} :
        MakeOrder(id, symbol, side, quantity, price, created_at, status)

Add == \E id \in OrderIds : BookAdd(id)

Remove == \E order_id \in OrderIds, symbol \in SubmitSymbols : BookRemove(order_id, symbol)

NextBook == Make \/ Add \/ Remove

SpecBook == Init /\ [][NextBook]_vars

\* A PriceLevel on its own (test_engine.py, test_price_level): a caller
\* constructs LIMIT orders at the level's price with any timestamps and calls
\* add_order, remove_order and pop_oldest_order on the level. An order is
\* added to the level once: the heap entries (timestamp, order_id, order) are
\* compared by timestamp and then order_id.
LevelFrame == UNCHANGED <<order_books, trades, admitted, trade_listeners,
                          event_loop, response>>

MakeLevelOrder(id, side, quantity, created_at) ==
    /\ id \notin DOMAIN allOrders
    /\ allOrders' = MapPut(allOrders, id,
            Order(id, "BTC-USDT", side, LIMIT, quantity, lone_level.price, created_at))
    /\ last' = [op |-> "Order", trades |-> <<>>, result |-> id, writes |-> <<>>]
    /\ UNCHANGED lone_level
    /\ LevelFrame

\* price_level.add_order(order)
LevelAddOrder(id) ==
    /\ id \in DOMAIN allOrders
    /\ id \notin Range(lone_level.orders)
    /\ lone_level' = PriceLevel_add_order(allOrders, lone_level, id)
    /\ last' = [op |-> "PriceLevel.add_order", trades |-> <<>>, result |-> None,
                writes |-> <<>>]
    /\ UNCHANGED allOrders
    /\ LevelFrame

\* price_level.remove_order(order_id); result is the order found, or None
LevelRemoveOrder(order_id) ==
    /\ lone_level' = PriceLevel_remove_order(allOrders, lone_level, order_id)
    /\ last' = [op |-> "PriceLevel.remove_order", trades |-> <<>>,
                result |-> IF PriceLevel_index(lone_level, order_id) >= 0
                           THEN order_id ELSE None,
                writes |-> <<>>]
    /\ UNCHANGED allOrders
    /\ LevelFrame

\* price_level.pop_oldest_order(); result is the order popped, or None
LevelPopOldest ==
    /\ lone_level' = PriceLevel_pop_oldest_order(allOrders, lone_level)
    /\ last' = [op |-> "PriceLevel.pop_oldest_order", trades |-> <<>>,
                result |-> get_oldest_order(lone_level), writes |-> <<>>]
    /\ UNCHANGED allOrders
    /\ LevelFrame

MakeForLevel ==
    \E id \in OrderIds, side \in {BUY}, quantity \in Quantities, created_at \in TimesWide :
        MakeLevelOrder(id, side, quantity, created_at)

LevelAdd == \E id \in OrderIds : LevelAddOrder(id)

LevelRemove == \E order_id \in OrderIds : LevelRemoveOrder(order_id)

NextLevel == MakeForLevel \/ LevelAdd \/ LevelRemove \/ LevelPopOldest

SpecLevel == Init /\ [][NextLevel]_vars

\* ---- the request handlers of the server (api/server.py) --------------------
\* The handlers are coroutines of one asyncio event loop, and a coroutine
\* gives the loop up at an `await` only. create_order, get_order_book, get_bbo
\* and cancel_order have no `await`: each runs from entry to return as one
\* callback of the loop, so it starts only when no other handler is running.

\* How the `try` block of a handler ends: it returns, or an exception of some
\* class leaves it.
Returns == [raised |-> "none"]
Raises(class) == [raised |-> class]
Response(status_code) == [status_code |-> status_code]

\* create_order, lines 153-190: the enum lookup raises HTTPException(400) for an
\* unknown side or type, Order.__init__ raises ValueError from _validate,
\* process_order raises what add_order raised (ValueError) or what a listener
\* raised (its class is the listener's affair; taken not to be ValueError).
create_order_try(side, order_type, quantity, price) ==
    IF side \notin OrderSide \/ order_type \notin OrderType
    THEN Raises("HTTPException")
    ELSE IF ~validate(order_type, quantity, price) THEN Raises("ValueError")
    ELSE Returns
process_order_try(add_order_raised, listener_raised) ==
    IF add_order_raised THEN Raises("ValueError")
    ELSE IF listener_raised THEN Raises("Exception")
    ELSE Returns
\* lines 192-197: `except ValueError` answers 400; `except Exception` answers
\* 500 and catches every other exception, HTTPException among them.
create_order_response(outcome) ==
    IF outcome.raised = "none" THEN Response(200)
    ELSE IF outcome.raised = "ValueError" THEN Response(400)
    ELSE Response(500)

\* cancel_order, lines 261-276: HTTPException(404) is raised inside the `try`
\* when the engine returned None.
cancel_order_try(cancelled_order) ==
    IF cancelled_order = None THEN Raises("HTTPException") ELSE Returns
\* lines 278-280: the only handler is `except Exception`, which answers 500.
cancel_order_response(outcome) ==
    IF outcome.raised = "none" THEN Response(200) ELSE Response(500)

\* The callback the server registers at import: asyncio.create_task does not
\* raise on the running loop.
trade_callback == [id |-> 1, raises |-> FALSE]

InitServer ==
    /\ order_books = EmptyMap
    /\ trades = <<>>
    /\ allOrders = EmptyMap
    /\ admitted = <<>>
    /\ last = [op |-> "init", trades |-> <<>>, result |-> None, writes |-> <<>>]
    /\ trade_listeners = <<trade_callback>>
    /\ event_loop = Idle
    /\ response = NoResponse
    /\ lone_level = PriceLevel(SetMin(Prices))

\* create_order up to the call of process_order: the Order is constructed and
\* the book looked up. `before` keeps order_books as the handler found them,
\* `call` what the matching in progress is going to do.
CreateOrderEnter(id, symbol, side, order_type, quantity, price, created_at) ==
    /\ event_loop = Idle
    /\ id \notin DOMAIN allOrders
    /\ create_order_try(side, order_type, quantity, price) = Returns
    /\ \E r \in {process_order(order_books,
                MapPut(allOrders, id,
                       Order(id, symbol, side, order_type, quantity, price, created_at)),
                id)} :
          /\ event_loop' = <<[handler |-> "create_order", order_id |-> id,
                              symbol |-> symbol, before |-> order_books,
                              call |-> r, pc |-> 0]>>
          /\ order_books' = r.books
    /\ allOrders' = MapPut(allOrders, id,
                           Order(id, symbol, side, order_type, quantity, price, created_at))
    /\ UNCHANGED <<trades, admitted, last, trade_listeners, response, lone_level>>

\* The running create_order executes the next statement of its matching loop.
CreateOrderStep ==
    /\ event_loop # Idle
    /\ \E h \in {event_loop[1]} :
          /\ h.pc < Len(h.call.m.mids)
          /\ order_books' = [order_books EXCEPT ![h.symbol] = h.call.m.mids[h.pc + 1].book]
          /\ allOrders' = h.call.m.mids[h.pc + 1].os
          /\ event_loop' = <<[h EXCEPT !.pc = @ + 1]>>
    /\ UNCHANGED <<trades, admitted, last, trade_listeners, response, lone_level>>

\* The running create_order finishes process_order and returns its response.
CreateOrderReturn ==
    /\ event_loop # Idle
    /\ \E h \in {event_loop[1]} :
          /\ h.pc = Len(h.call.m.mids)
          /\ ProcessOrderReturns(h.call, h.order_id, h.symbol)
          /\ response' = create_order_response(
                             process_order_try(h.call.m.raised,
                                               last'.result = Raised))
    /\ event_loop' = Idle
    /\ UNCHANGED lone_level

\* create_order for a request that does not get as far as process_order: no
\* Order is kept and the engine is not called.
CreateOrderRejects(side, order_type, quantity, price) ==
    /\ event_loop = Idle
    /\ create_order_try(side, order_type, quantity, price) # Returns
    /\ response' = create_order_response(
                       create_order_try(side, order_type, quantity, price))
    /\ UNCHANGED <<order_books, trades, allOrders, admitted, last,
                   trade_listeners, event_loop>>
    /\ UNCHANGED lone_level

\* get_order_book started while another handler is running
GetOrderBook_preempting(symbol) ==
    /\ order_books' = get_order_book(order_books, symbol)
    /\ last' = [op |-> "get_order_book", trades |-> <<>>, result |-> None,
                writes |-> <<>>, symbol |-> symbol,
                view |-> get_order_book_snapshot(
                            get_order_book(order_books, symbol)[symbol])]
    /\ response' = Response(200)
    /\ UNCHANGED <<trades, allOrders, admitted, trade_listeners, event_loop>>
    /\ UNCHANGED lone_level

\* GET /api/orderbook/{symbol}
GetOrderBook(symbol) ==
    /\ event_loop = Idle
    /\ order_books' = get_order_book(order_books, symbol)
    /\ last' = [op |-> "get_order_book", trades |-> <<>>, result |-> None,
                writes |-> <<>>, symbol |-> symbol,
                view |-> get_order_book_snapshot(
                            get_order_book(order_books, symbol)[symbol])]
    /\ response' = Response(200)
    /\ UNCHANGED <<trades, allOrders, admitted, trade_listeners, event_loop>>
    /\ UNCHANGED lone_level

\* GET /api/bbo/{symbol}
GetBBO(symbol) ==
    /\ event_loop = Idle
    /\ order_books' = get_order_book(order_books, symbol)
    /\ last' = [op |-> "get_bbo", trades |-> <<>>, result |-> None,
                writes |-> <<>>, symbol |-> symbol,
                view |-> get_bbo(get_order_book(order_books, symbol)[symbol])]
    /\ response' = Response(200)
    /\ UNCHANGED <<trades, allOrders, admitted, trade_listeners, event_loop>>
    /\ UNCHANGED lone_level

\* DELETE /api/orders/{order_id}?symbol=
CancelOrderRequest(order_id, symbol) ==
    /\ event_loop = Idle
    /\ CancelOrderCall(order_id, symbol)
    /\ response' = cancel_order_response(cancel_order_try(last'.result))
    /\ UNCHANGED event_loop
    /\ UNCHANGED lone_level

\* The order types of the requests under SpecServer: one that can rest and
\* one that cannot. _match_ioc_order and _match_fok_order run the same loops.
RequestTypes == {LIMIT, MARKET}

CreateOrder ==
    \E id \in OrderIds, symbol \in SubmitSymbols, side \in OrderSide,
       order_type \in RequestTypes, quantity \in Quantities, created_at \in Times :
        \E price \in PricesOf(order_type) :
            CreateOrderEnter(id, symbol, side, order_type, quantity, price, created_at)

\* What a request may carry in `side` and `type` besides the enum values, and
\* in `quantity` and `price` besides the positive numbers.
RequestSides == OrderSide \cup {"hold"}
RequestTypesAny == RequestTypes \cup {"stop"}

RejectOrder ==
    \E side \in RequestSides, order_type \in RequestTypesAny,
       quantity \in AnyQuantities, price \in AnyPrices :
        CreateOrderRejects(side, order_type, quantity, price)

ReadDepth == \E symbol \in SubmitSymbols : GetOrderBook(symbol)
ReadBBO == \E symbol \in SubmitSymbols : GetBBO(symbol)
CancelRequest ==
    \E order_id \in OrderIds, symbol \in SubmitSymbols :
        CancelOrderRequest(order_id, symbol)

\* The read methods of an OrderBook called on the book of a symbol that has
\* one, between process_order and cancel_order calls. `last` keeps what the
\* read returned.
BookReadFrame == UNCHANGED <<trades, allOrders, admitted, trade_listeners,
                             event_loop, response, lone_level>>
ReadReturns(op, symbol, result) ==
    [op |-> op, trades |-> <<>>, result |-> None, writes |-> <<>>,
     symbol |-> symbol, view |-> result]

\* get_order as `self.orders.pop(order_id, None)`
BookGetOrder_popping(symbol, order_id) ==
    /\ symbol \in DOMAIN order_books
    /\ order_books' = [order_books EXCEPT ![symbol].orders = @ \ {order_id}]
    /\ last' = ReadReturns("get_order", symbol, get_order(order_books[symbol], order_id))
    /\ BookReadFrame

\* order_book.get_order(order_id)
BookGetOrder(symbol, order_id) ==
    /\ symbol \in DOMAIN order_books
    /\ last' = ReadReturns("get_order", symbol, get_order(order_books[symbol], order_id))
    /\ UNCHANGED order_books
    /\ BookReadFrame

\* order_book.get_best_bid()
BookGetBestBid(symbol) ==
    /\ symbol \in DOMAIN order_books
    /\ last' = ReadReturns("get_best_bid", symbol, get_best_bid(order_books[symbol]))
    /\ UNCHANGED order_books
    /\ BookReadFrame

\* order_book.get_best_ask()
BookGetBestAsk(symbol) ==
    /\ symbol \in DOMAIN order_books
    /\ last' = ReadReturns("get_best_ask", symbol, get_best_ask(order_books[symbol]))
    /\ UNCHANGED order_books
    /\ BookReadFrame

\* order_book.get_order_book_snapshot()
BookSnapshot(symbol) ==
    /\ symbol \in DOMAIN order_books
    /\ last' = ReadReturns("get_order_book_snapshot", symbol,
                           get_order_book_snapshot(order_books[symbol]))
    /\ UNCHANGED order_books
    /\ BookReadFrame

\* order_book.get_bbo()
BookBBO(symbol) ==
    /\ symbol \in DOMAIN order_books
    /\ last' = ReadReturns("get_bbo", symbol, get_bbo(order_books[symbol]))
    /\ UNCHANGED order_books
    /\ BookReadFrame

ReadOrder == \E symbol \in SubmitSymbols, order_id \in OrderIds : BookGetOrder(symbol, order_id)
ReadBestBid == \E symbol \in SubmitSymbols : BookGetBestBid(symbol)
ReadBestAsk == \E symbol \in SubmitSymbols : BookGetBestAsk(symbol)
ReadSnapshot == \E symbol \in SubmitSymbols : BookSnapshot(symbol)
ReadBookBBO == \E symbol \in SubmitSymbols : BookBBO(symbol)

NextReads ==
    \/ SubmitOnePrice \/ Cancel
    \/ ReadOrder \/ ReadBestBid \/ ReadBestAsk \/ ReadSnapshot \/ ReadBookBBO

SpecReads == Init /\ [][NextReads]_vars

\* The engine referred to for either symbol: orders submitted and cancelled,
\* and the depth and BBO reads of the server, each of which starts with
\* matching_engine.get_order_book(symbol).
ReferenceTypes == {LIMIT}
SubmitReference ==
    \E id \in OrderIds, symbol \in Symbols, side \in OrderSide,
       order_type \in ReferenceTypes, quantity \in Quantities, created_at \in Times :
        \E price \in TimedPricesOf(order_type) :
            SubmitOrder(id, symbol, side, order_type, quantity, price, created_at)
ReadDepthAny == \E symbol \in Symbols : GetOrderBook(symbol)
ReadBBOAny == \E symbol \in Symbols : GetBBO(symbol)

NextReferences == SubmitReference \/ Cancel \/ ReadDepthAny \/ ReadBBOAny

SpecReferences == Init /\ [][NextReferences]_vars

NextServer ==
    \/ CreateOrder \/ CreateOrderStep \/ CreateOrderReturn
    \/ ReadDepth \/ ReadBBO \/ CancelRequest

SpecServer == InitServer /\ [][NextServer]_vars

\* The server under requests of every shape, well-formed or not; the
\* well-formed ones are LIMIT and MARKET orders at one price.
CreateOrderOnePrice ==
    \E id \in OrderIds, symbol \in SubmitSymbols, side \in OrderSide,
       order_type \in RequestTypes, quantity \in Quantities, created_at \in Times :
        \E price \in TimedPricesOf(order_type) :
            CreateOrderEnter(id, symbol, side, order_type, quantity, price, created_at)

NextRequests ==
    \/ CreateOrderOnePrice \/ CreateOrderStep \/ CreateOrderReturn
    \/ RejectOrder \/ CancelRequest

SpecRequests == InitServer /\ [][NextRequests]_vars

\* ---- vocabulary of the properties ----------------------------------------
\* sum of f[x] over x in S
RECURSIVE SetSum(_, _)
SetSum(S, f) ==
    IF S = {} THEN 0
    ELSE LET x == CHOOSE y \in S : TRUE IN f[x] + SetSum(S \ {x}, f)

RECURSIVE TradedQuantity(_)
TradedQuantity(ts) ==
    IF ts = <<>> THEN 0 ELSE Head(ts).quantity + TradedQuantity(Tail(ts))

\* the book of a symbol as get_order_book would return it
BookOf(books, symbol) ==
    IF symbol \in DOMAIN books THEN books[symbol] ELSE OrderBook(symbol)

\* sum of remaining_quantity over the orders queued in a level
LevelRemaining(os, L) ==
    SetSum(Range(L.orders), [id \in Range(L.orders) |-> os[id].remaining_quantity])

\* opposite-side liquidity that order o accepts (every price for a market order)
WithinLimit(o, p) == IF o.side = BUY THEN p <= o.price ELSE p >= o.price
Accepts(o, p) == o.order_type = MARKET \/ WithinLimit(o, p)
Liquidity(os, book, o) ==
    LET m == opposite_map(book, o.side)
    IN SetSum({p \in DOMAIN m : Accepts(o, p)},
              [p \in DOMAIN m |-> LevelRemaining(os, m[p])])

\* the step is a process_order call that returned; Taker is its order
ProcessReturned == last.op = "process_order" /\ last.result # Raised
Taker == allOrders[last.result]
SubmitStep ==
    /\ last'.op = "process_order" /\ last'.result # Raised
    /\ last'.result \notin DOMAIN allOrders
TakerNext == allOrders'[last'.result]

\* the price levels of all books, as <<symbol, side, price>>
AllLevels ==
    {<<s, side, p>> \in (DOMAIN order_books) \X OrderSide \X Prices :
        p \in DOMAIN (IF side = BUY THEN order_books[s].bids ELSE order_books[s].asks)}
LevelAt(k) ==
    IF k[2] = BUY THEN order_books[k[1]].bids[k[3]] ELSE order_books[k[1]].asks[k[3]]
Queued(k) == Range(LevelAt(k).orders)
AdmittedBefore(a, b) ==
    \E i, j \in 1..Len(admitted) : i < j /\ admitted[i] = a /\ admitted[j] = b

\* ---- C1 -----------------------------------------------------------------
\* C1: process_order of a FOK order either returns trades summing to the
\* order's quantity and leaves it FILLED, or returns no trade, leaves it
\* CANCELLED with filled_quantity = 0 and remaining_quantity = quantity and
\* leaves the book unchanged.
C1_FOKAtomicity ==
    [][(SubmitStep /\ TakerNext.order_type = FOK) =>
         \/ /\ TradedQuantity(last'.trades) = TakerNext.quantity
            /\ TakerNext.status = FILLED
         \/ /\ last'.trades = <<>>
            /\ TakerNext.status = CANCELLED
            /\ TakerNext.filled_quantity = 0
            /\ TakerNext.remaining_quantity = TakerNext.quantity
            /\ order_books'[TakerNext.symbol] = BookOf(order_books, TakerNext.symbol)]_vars

\* ---- C2 -----------------------------------------------------------------
\* C2: a FOK order is fully filled whenever the resting opposite-side orders
\* at prices it accepts hold at least its quantity, for both sides.
C2_FOKFeasibility ==
    [][(SubmitStep /\ TakerNext.order_type = FOK
        /\ Liquidity(allOrders, BookOf(order_books, TakerNext.symbol), TakerNext)
             >= TakerNext.quantity)
       => (TakerNext.status = FILLED
           /\ TakerNext.filled_quantity = TakerNext.quantity)]_vars

\* ---- C3 -----------------------------------------------------------------
\* C3: after every call each level's total_quantity is the sum of the
\* remaining quantities of the orders queued in it.
C3_LevelTotal ==
    \A k \in AllLevels :
        LevelAt(k).total_quantity = LevelRemaining(allOrders, LevelAt(k))

\* ---- C4 -----------------------------------------------------------------
\* C4: of two orders resting at the same price, the one admitted earlier is
\* filled completely before the other receives any fill, whatever their
\* created_at timestamps.
C4_TimePriority ==
    [][\A k \in AllLevels : \A a, b \in Queued(k) :
          (AdmittedBefore(a, b)
           /\ allOrders'[b].filled_quantity > allOrders[b].filled_quantity)
          => allOrders'[a].remaining_quantity = 0]_vars

\* ---- C5 -----------------------------------------------------------------
Better(side, p, q) == IF side = BUY THEN p < q ELSE p > q

\* C5: the trades of one process_order call have non-decreasing prices for a
\* BUY taker and non-increasing prices for a SELL taker, and no opposite-side
\* level at a strictly better price than a trade's price is left resting.
C5_BestPriceFirst ==
    ProcessReturned =>
        LET ts == last.trades
            m == opposite_map(order_books[Taker.symbol], Taker.side)
        IN /\ \A i \in 1..(Len(ts) - 1) : ~Better(Taker.side, ts[i + 1].price, ts[i].price)
           /\ \A i \in 1..Len(ts) : \A p \in DOMAIN m : ~Better(Taker.side, p, ts[i].price)

C5_Witness ==
    /\ ProcessReturned
    /\ Len(last.trades) >= 2
    /\ last.trades[1].price # last.trades[2].price

\* ---- C6 -----------------------------------------------------------------
\* C6: every trade of a process_order call has the price of the resting
\* (maker) order, which was queued on the opposite side at that price before
\* the call, names the incoming order as taker and has its side as
\* aggressor_side.
C6_TradeFields ==
    [][SubmitStep =>
         \A i \in 1..Len(last'.trades) :
            LET t == last'.trades[i]
                m == opposite_map(BookOf(order_books, TakerNext.symbol), TakerNext.side)
            IN /\ t.maker_order_id \in DOMAIN allOrders
               /\ t.price = allOrders[t.maker_order_id].price
               /\ t.price \in DOMAIN m
               /\ t.maker_order_id \in Range(m[t.price].orders)
               /\ t.taker_order_id = last'.result
               /\ t.aggressor_side = TakerNext.side
               /\ t.symbol = TakerNext.symbol]_vars

C6_Witness ==
    /\ ProcessReturned
    /\ Taker.order_type = FOK
    /\ last.trades # <<>>
    /\ last.trades[1].price # Taker.price

\* ---- C7 -----------------------------------------------------------------
\* C7: every trade of a LIMIT, IOC or FOK taker is at a price within the
\* taker's limit, and so is the price of the resting order it fills.
C7_PriceImprovement ==
    (ProcessReturned /\ Taker.order_type \in {LIMIT, IOC, FOK}) =>
        \A i \in 1..Len(last.trades) :
            /\ WithinLimit(Taker, last.trades[i].price)
            /\ WithinLimit(Taker, allOrders[last.trades[i].maker_order_id].price)

\* a priced taker traded and stopped in front of a level outside its limit
C7_Witness ==
    /\ ProcessReturned
    /\ Taker.order_type = IOC
    /\ last.trades # <<>>
    /\ Taker.remaining_quantity > 0
    /\ DOMAIN opposite_map(order_books[Taker.symbol], Taker.side) # {}

\* ---- C8 -----------------------------------------------------------------
\* C8: for a MARKET, LIMIT or IOC order the quantities of the trades returned
\* sum to min(quantity, opposite-side liquidity the order accepts at
\* submission), and that is the order's filled_quantity afterwards.
C8_VolumeConservation ==
    [][(SubmitStep /\ TakerNext.order_type \in {MARKET, LIMIT, IOC}) =>
         LET v == min(TakerNext.quantity,
                      Liquidity(allOrders, BookOf(order_books, TakerNext.symbol), TakerNext))
         IN /\ TradedQuantity(last'.trades) = v
            /\ TakerNext.filled_quantity = v]_vars

\* a LIMIT order took all the liquidity within its limit, was left short of
\* its quantity and stopped in front of a level outside its limit
C8_Witness ==
    /\ ProcessReturned
    /\ Taker.order_type = LIMIT
    /\ Len(last.trades) = 1
    /\ Taker.remaining_quantity > 0
    /\ DOMAIN opposite_map(order_books[Taker.symbol], Taker.side) # {}

\* ---- C9 -----------------------------------------------------------------
\* C9: every order in OrderBook.orders is queued in some price level of that
\* book and has status OPEN or PARTIALLY_FILLED.
C9_IndexHoldsRestingOnly ==
    \A s \in DOMAIN order_books : \A id \in order_books[s].orders :
        /\ \E k \in AllLevels : k[1] = s /\ id \in Queued(k)
        /\ allOrders[id].status \in {OPEN, PARTIALLY_FILLED}

\* ---- C10 ----------------------------------------------------------------
\* C10: every order queued in a price level is queued exactly once in the
\* whole book, in the bids map iff it is a BUY, under the key equal to its
\* price, and the book's order index holds its order_id.
C10_RestingOrderPlacement ==
    \A k \in AllLevels :
        \A i \in 1..Len(LevelAt(k).orders) :
            LET id == LevelAt(k).orders[i]
            IN /\ allOrders[id].side = k[2]
               /\ allOrders[id].price = k[3]
               /\ LevelAt(k).price = k[3]
               /\ allOrders[id].symbol = k[1]
               /\ id \in order_books[k[1]].orders
               /\ \A k2 \in AllLevels : \A j \in 1..Len(LevelAt(k2).orders) :
                     LevelAt(k2).orders[j] = id => (k2 = k /\ j = i)

\* both sides hold orders, one level holding two
C10_Witness ==
    /\ \E k \in AllLevels : k[2] = BUY
    /\ \E k \in AllLevels : k[2] = SELL
    /\ \E k \in AllLevels : Len(LevelAt(k).orders) = 2

\* ---- C11 ----------------------------------------------------------------
\* C11: after every process_order or cancel_order call no price level present
\* in a bids or asks map is empty: a level leaves its map in the call in
\* which its last order is filled or cancelled.
C11_NoEmptyLevel ==
    \A k \in AllLevels : ~is_empty(LevelAt(k))

\* cancel_order took the only order of a level: the level is gone while
\* another level of the same side stays
C11_Witness ==
    /\ last.op = "cancel_order" /\ last.result # None
    /\ LET o == allOrders[last.result]
       IN /\ o.status = CANCELLED /\ o.remaining_quantity > 0
          /\ <<o.symbol, o.side, o.price>> \notin AllLevels
          /\ \E k \in AllLevels : k[1] = o.symbol /\ k[2] = o.side

\* ---- C12 ----------------------------------------------------------------
\* the trades of the log in which order id is the taker
TakerTrades(id) == SelectSeq(trades, LAMBDA tr : tr.taker_order_id = id)

\* C12: an IOC order that process_order has returned is in no order index and
\* in no price level; with remaining_quantity > 0 it is CANCELLED and its
\* filled_quantity is the quantity it traded; fully filled it is FILLED.
C12_IOCNonResting ==
    \A id \in DOMAIN allOrders :
        LET o == allOrders[id]
        IN o.order_type = IOC =>
             /\ \A s \in DOMAIN order_books : id \notin order_books[s].orders
             /\ \A k \in AllLevels : id \notin Queued(k)
             /\ o.filled_quantity = TradedQuantity(TakerTrades(id))
             /\ IF o.remaining_quantity > 0
                THEN o.status = CANCELLED
                ELSE o.status = FILLED /\ o.filled_quantity = o.quantity

\* an IOC order traded once and was left with a residual
C12_Witness ==
    /\ ProcessReturned
    /\ Taker.order_type = IOC
    /\ Len(last.trades) = 1
    /\ Taker.filled_quantity > 0
    /\ Taker.remaining_quantity > 0

\* ---- C13 ----------------------------------------------------------------
\* total_quantity of the level of symbol s, side and price p in books (0 if none)
LevelTotal(books, s, side, p) ==
    LET m == IF side = BUY THEN BookOf(books, s).bids ELSE BookOf(books, s).asks
    IN IF p \in DOMAIN m THEN m[p].total_quantity ELSE 0
BestOfSide(book, side) ==
    IF side = BUY THEN get_best_bid(book) ELSE get_best_ask(book)

\* C13: a LIMIT order left with remaining_quantity > 0 is OPEN, fills or not,
\* and is in the index and queued on its own side at its own price, the level
\* total grown by its remaining quantity, and the best bid/ask of its side is
\* at least as good as its price and counts it; a fully filled LIMIT order is
\* FILLED and in no index or level.
C13_LimitResidualRests ==
    [][(SubmitStep /\ TakerNext.order_type = LIMIT) =>
         LET o == TakerNext
             book == order_books'[o.symbol]
             m == IF o.side = BUY THEN book.bids ELSE book.asks
             best == BestOfSide(book, o.side)
         IN IF o.remaining_quantity > 0
            THEN /\ o.status = OPEN
                 /\ o.order_id \in book.orders
                 /\ o.price \in DOMAIN m
                 /\ Cardinality({i \in 1..Len(m[o.price].orders) :
                                   m[o.price].orders[i] = o.order_id}) = 1
                 /\ m[o.price].total_quantity =
                      LevelTotal(order_books, o.symbol, o.side, o.price)
                        + o.remaining_quantity
                 /\ IF o.side = BUY THEN best[1] >= o.price ELSE best[1] <= o.price
                 /\ best[1] = o.price => best[2] >= o.remaining_quantity
            ELSE /\ o.status = FILLED
                 /\ o.order_id \notin book.orders
                 /\ \A p \in DOMAIN m : o.order_id \notin Range(m[p].orders)]_vars

\* a LIMIT order traded, kept a residual and rests OPEN as the best of its side
C13_Witness ==
    /\ ProcessReturned
    /\ Taker.order_type = LIMIT
    /\ last.trades # <<>>
    /\ Taker.remaining_quantity > 0
    /\ Taker.status = OPEN
    /\ BestOfSide(order_books[Taker.symbol], Taker.side)
         = <<Taker.price, Taker.remaining_quantity>>

\* ---- C14 ----------------------------------------------------------------
\* C14: in every book whose two sides are both non-empty the best bid price
\* is strictly less than the best ask price.
C14_NoCrossedBook ==
    \A s \in DOMAIN order_books :
        LET book == order_books[s]
        IN (DOMAIN book.bids # {} /\ DOMAIN book.asks # {}) =>
              get_best_bid(book)[1] < get_best_ask(book)[1]

\* a LIMIT order crossed the spread, traded and rests with its residual
\* while the opposite side still holds a level
C14_Witness ==
    /\ ProcessReturned
    /\ Taker.order_type = LIMIT
    /\ last.trades # <<>>
    /\ Taker.order_id \in order_books[Taker.symbol].orders
    /\ DOMAIN order_books[Taker.symbol].bids # {}
    /\ DOMAIN order_books[Taker.symbol].asks # {}

\* ---- C15 ----------------------------------------------------------------
\* C15: a MARKET order is in no order index and no price level after
\* process_order, and is CANCELLED when it is left with remaining_quantity > 0;
\* against an empty opposite side it makes no trade, leaves the book as it
\* was and is CANCELLED.
C15_MarketNeverRests ==
    [][(SubmitStep /\ TakerNext.order_type = MARKET) =>
         LET o == TakerNext
             before == BookOf(order_books, o.symbol)
             book == order_books'[o.symbol]
         IN /\ o.order_id \notin book.orders
            /\ \A p \in DOMAIN book.bids : o.order_id \notin Range(book.bids[p].orders)
            /\ \A p \in DOMAIN book.asks : o.order_id \notin Range(book.asks[p].orders)
            /\ o.remaining_quantity > 0 => o.status = CANCELLED
            /\ DOMAIN opposite_map(before, o.side) = {} =>
                 /\ last'.trades = <<>>
                 /\ book = before
                 /\ o.status = CANCELLED]_vars

\* ---- C16 ----------------------------------------------------------------
\* C16: every order has filled_quantity + remaining_quantity = quantity and
\* remaining_quantity >= 0, and is FILLED iff remaining_quantity = 0.
C16_QuantityAccounting ==
    \A id \in DOMAIN allOrders :
        LET o == allOrders[id]
        IN /\ o.filled_quantity + o.remaining_quantity = o.quantity
           /\ o.remaining_quantity >= 0
           /\ o.status = FILLED <=> o.remaining_quantity = 0

\* a call filled its maker completely and its taker in part
C16_Witness ==
    /\ ProcessReturned
    /\ last.trades # <<>>
    /\ Taker.filled_quantity > 0 /\ Taker.remaining_quantity > 0
    /\ allOrders[last.trades[1].maker_order_id].status = FILLED

\* ---- C17 ----------------------------------------------------------------
\* C17: every order whose status is PARTIALLY_FILLED has
\* 0 < filled_quantity < quantity.
C17_PartiallyFilledHasFills ==
    \A id \in DOMAIN allOrders :
        allOrders[id].status = PARTIALLY_FILLED =>
            /\ 0 < allOrders[id].filled_quantity
            /\ allOrders[id].filled_quantity < allOrders[id].quantity

\* ---- C18 ----------------------------------------------------------------
\* the legal status transitions
LegalTransition(from, to) ==
    \/ from = PENDING /\ to # PENDING
    \/ from = OPEN /\ to \in {PARTIALLY_FILLED, FILLED, CANCELLED}
    \/ from = PARTIALLY_FILLED /\ to \in {PARTIALLY_FILLED, FILLED, CANCELLED}

\* C18: every assignment to an order's status made in a process_order or
\* cancel_order call (by the engine, Order.fill or Order.cancel) is a legal
\* transition; none leaves FILLED, CANCELLED or REJECTED, and none goes from
\* PARTIALLY_FILLED to OPEN.
C18_LegalTransitions ==
    \A i \in 1..Len(last.writes) :
        LegalTransition(last.writes[i].from, last.writes[i].to)

\* ---- C19 ----------------------------------------------------------------
\* the order in which the matching loop would consume a level's queue
RECURSIVE PopSequence(_, _)
PopSequence(os, heap) ==
    IF heap = <<>> THEN <<>>
    ELSE <<heap[1]>> \o PopSequence(os, heappop(os, heap))
Without(seq, id) == SelectSeq(seq, LAMBDA x : x # id)

\* the price levels of books, as <<symbol, side, price>>, and the level at one
LevelsOf(books) ==
    {<<s, side, p>> \in (DOMAIN books) \X OrderSide \X Prices :
        p \in DOMAIN (IF side = BUY THEN books[s].bids ELSE books[s].asks)}
LevelIn(books, k) ==
    IF k[2] = BUY THEN books[k[1]].bids[k[3]] ELSE books[k[1]].asks[k[3]]

\* the step is a cancel_order call that returned an order queued in a level
CancelRestingStep ==
    /\ last'.op = "cancel_order" /\ last'.result # None
    /\ \E k \in AllLevels : last'.result \in Queued(k)

\* C19: cancel_order on a resting order takes it out of its level and of the
\* index, drops the level if that emptied it and otherwise reduces the level's
\* total_quantity by the order's remaining quantity, sets the order CANCELLED;
\* every other order, level and index entry is as before and the level's
\* other orders are consumed in the same sequence; no trade of a later call
\* has a CANCELLED order as its maker.
C19_CancelResting ==
    [][/\ CancelRestingStep =>
            LET id == last'.result
                o == allOrders[id]
                k == <<o.symbol, o.side, o.price>>
                L == LevelIn(order_books, k)
                after == LevelsOf(order_books')
            IN /\ \A k2 \in after : id \notin Range(LevelIn(order_books', k2).orders)
               /\ DOMAIN order_books' = DOMAIN order_books
               /\ \A s \in DOMAIN order_books :
                     order_books'[s].orders = order_books[s].orders \ {id}
               /\ IF L.orders = <<id>>
                  THEN after = AllLevels \ {k}
                  ELSE /\ after = AllLevels
                       /\ LevelIn(order_books', k).total_quantity =
                            L.total_quantity - o.remaining_quantity
                       /\ PopSequence(allOrders', LevelIn(order_books', k).orders) =
                            Without(PopSequence(allOrders, L.orders), id)
               /\ \A k2 \in AllLevels \ {k} :
                     LevelIn(order_books', k2) = LevelIn(order_books, k2)
               /\ allOrders' = [allOrders EXCEPT ![id].status = CANCELLED]
               /\ trades' = trades
       /\ SubmitStep =>
            \A i \in 1..Len(last'.trades) :
                allOrders[last'.trades[i].maker_order_id].status # CANCELLED]_vars

\* cancel_order took the order at the head of a queue that another order
\* stays in
C19_Witness ==
    /\ last.op = "cancel_order" /\ last.result # None
    /\ LET o == allOrders[last.result]
       IN /\ o.status = CANCELLED /\ o.order_type = LIMIT
          /\ o.remaining_quantity > 0
          /\ <<o.symbol, o.side, o.price>> \in AllLevels
          /\ \E j \in Queued(<<o.symbol, o.side, o.price>>) :
                EntryLess(allOrders, o.order_id, j)

\* ---- C20 ----------------------------------------------------------------
\* C20: cancel_order(order_id, symbol) returns None and changes nothing, and
\* creates no book, when the symbol has no book or the order_id is not in that
\* symbol's book, wherever else the order may rest.
C20_CancelAbsent ==
    [][\A order_id \in OrderIds, symbol \in Symbols :
          (/\ CancelOrder(order_id, symbol)
           /\ \/ symbol \notin DOMAIN order_books
              \/ order_id \notin order_books[symbol].orders)
          => /\ last'.result = None
             /\ UNCHANGED <<order_books, allOrders, trades, admitted>>]_vars

\* cancel_order returned None while both symbols have a book and every order
\* id rests in one of them: the call named the symbol the order does not
\* rest in
C20_Witness ==
    /\ last.op = "cancel_order" /\ last.result = None
    /\ DOMAIN order_books = Symbols
    /\ \A id \in OrderIds : \E k \in AllLevels : id \in Queued(k)
    /\ \A s \in Symbols : order_books[s].orders # {}

\* ---- C21 ----------------------------------------------------------------
\* C21: cancel_order for an order whose status is FILLED, CANCELLED or
\* REJECTED leaves every order and every book (price maps, levels, totals,
\* order index) as they were.
C21_CancelTerminal ==
    [][\A order_id \in DOMAIN allOrders, symbol \in Symbols :
          (/\ CancelOrder(order_id, symbol)
           /\ allOrders[order_id].status \in {FILLED, CANCELLED, REJECTED})
          => UNCHANGED <<order_books, allOrders, trades>>]_vars

\* ---- C22 ----------------------------------------------------------------
\* every trade of ts handed to every listener, trade by trade and, for one
\* trade, in registration order
FanOut(listeners, ts) ==
    [k \in 1..(Len(ts) * Len(listeners)) |->
        [callback |-> listeners[((k - 1) % Len(listeners)) + 1],
         trade |-> ts[((k - 1) \div Len(listeners)) + 1]]]

C23_ListenerIsolation ==
    [][last'.op = "process_order" =>
          /\ last'.result # Raised
          /\ last'.trades = last'.matched
          /\ trades' = trades \o last'.matched
          /\ last'.delivered = FanOut(trade_listeners, last'.matched)]_vars

\* ---- C24 ----------------------------------------------------------------
\* C24: every process_order call extends the trade log by exactly the trade
\* list it returns (nothing when it returns none), and no other call touches
\* the log.
C24_TradeLogAppendOnly ==
    [][/\ last'.op = "process_order" => trades' = trades \o last'.trades
       /\ last'.op # "process_order" => trades' = trades]_vars

\* ---- C25 ----------------------------------------------------------------
\* C25: constructing an Order raises when quantity <= 0, or when the type is
\* LIMIT, IOC or FOK and the price is absent or <= 0; otherwise it gives an
\* order that is PENDING with filled_quantity 0 and remaining_quantity =
\* quantity; a MARKET order needs no price.
C25_OrderValidation ==
    [][\A id \in OrderIds, symbol \in SubmitSymbols, side \in OrderSide,
          order_type \in OrderType, quantity \in AnyQuantities,
          price \in AnyPrices, created_at \in Times :
          NewOrder(id, symbol, side, order_type, quantity, price, created_at) =>
             IF \/ quantity <= 0
                \/ (order_type \in {LIMIT, IOC, FOK}
                    /\ (price = NoPrice \/ price <= 0))
             THEN last'.result = Raised /\ allOrders' = allOrders
             ELSE /\ last'.result = id
                  /\ DOMAIN allOrders' = {id}
                  /\ allOrders'[id].status = PENDING
                  /\ allOrders'[id].filled_quantity = 0
                  /\ allOrders'[id].remaining_quantity = quantity
                  /\ allOrders'[id].quantity = quantity
                  /\ allOrders'[id].price = price
                  /\ allOrders'[id].order_type = order_type
                  /\ allOrders'[id].side = side]_vars

\* a MARKET order was constructed without a price
C25_Witness ==
    /\ last.op = "Order" /\ last.result # Raised
    /\ allOrders[last.result].order_type = MARKET
    /\ allOrders[last.result].price = NoPrice
    /\ allOrders[last.result].status = PENDING

\* ---- C26 ----------------------------------------------------------------
\* C26: Order.fill of more than remaining_quantity raises and leaves the
\* order as it was; of 0 < q <= remaining_quantity it moves q from
\* remaining_quantity to filled_quantity and sets FILLED when nothing remains,
\* else PARTIALLY_FILLED.
C26_OrderFill ==
    [][\A id \in DOMAIN allOrders, q \in FillQuantities :
          OrderFill(id, q) =>
             IF q > allOrders[id].remaining_quantity
             THEN last'.result = Raised /\ allOrders' = allOrders
             ELSE /\ last'.result # Raised
                  /\ allOrders' = [allOrders EXCEPT
                        ![id].filled_quantity = @ + q,
                        ![id].remaining_quantity = @ - q,
                        ![id].status =
                            IF allOrders[id].remaining_quantity = q
                            THEN FILLED ELSE PARTIALLY_FILLED]]_vars

\* a fill of more than what remained was refused on an order filled in part
C26_Witness ==
    /\ last.op = "fill" /\ last.result = Raised
    /\ \E id \in DOMAIN allOrders :
          /\ allOrders[id].status = PARTIALLY_FILLED
          /\ allOrders[id].filled_quantity > 0

\* ---- C27 ----------------------------------------------------------------
\* C27: add_order of an order whose order_id is in the book's index raises
\* DUPLICATE and leaves the book (price maps, levels, index) as it was.
C27_AddOrderDuplicate ==
    [][\A id \in DOMAIN allOrders :
          (/\ BookAdd(id)
           /\ allOrders[id].symbol \in DOMAIN order_books
           /\ id \in order_books[allOrders[id].symbol].orders)
          => /\ last'.result = Raised
             /\ order_books' = order_books]_vars

\* add_order raised on a book that holds orders on both sides
C27_Witness ==
    /\ last.op = "add_order" /\ last.result = Raised
    /\ \E k \in AllLevels : k[2] = BUY
    /\ \E k \in AllLevels : k[2] = SELL

\* ---- C28 -----------------------------------------------------------------
\* The price of `keys` that has exactly i - 1 better prices in `keys`.
Ahead(side, q, p) == IF side = BUY THEN q > p ELSE q < p
Ranked(keys, side, i) ==
    CHOOSE p \in keys : Cardinality({q \in keys : Ahead(side, q, p)}) = i - 1

RowsAgree(rows, price_map, side) ==
    /\ Len(rows) = Cardinality(DOMAIN price_map)
    /\ \A i \in 1..Len(rows) :
          LET p == Ranked(DOMAIN price_map, side, i)
          IN rows[i] = <<ToString(p), ToString(price_map[p].total_quantity)>>

HasResting(books, k) ==
    \E i \in 1..Len(LevelIn(books, k).orders) :
        allOrders[LevelIn(books, k).orders[i]].remaining_quantity > 0

\* C28: the depth snapshot of every book lists the bids from the highest price
\* down and the asks from the lowest price up, one row per price level of the
\* book, each row carrying the level's price and its total_quantity; and every
\* level (so every row) has an order with remaining quantity resting in it.
C28_DepthSnapshot ==
    /\ \A s \in DOMAIN order_books :
          LET snapshot == get_order_book_snapshot(order_books[s])
          IN /\ RowsAgree(snapshot.bids, order_books[s].bids, BUY)
             /\ RowsAgree(snapshot.asks, order_books[s].asks, SELL)
    /\ \A k \in AllLevels : HasResting(order_books, k)

\* Two bid levels after a match, the better one holding a partly filled maker,
\* so that its total_quantity is not the quantity still resting in it.
C28_Witness ==
    /\ Len(trades) > 0
    /\ \E s \in DOMAIN order_books :
          /\ Cardinality(DOMAIN order_books[s].bids) = 2
          /\ Len(get_order_book_snapshot(order_books[s]).bids) = 2
          /\ LET best == order_books[s].bids[SetMax(DOMAIN order_books[s].bids)]
             IN best.total_quantity # LevelRemaining(allOrders, best)

\* ---- C29 -----------------------------------------------------------------
\* C29: in every book, a side of get_bbo is None exactly when that side's price
\* map is empty; otherwise the bid price of get_bbo is the highest key of bids,
\* the price of the first bid row of the depth snapshot and the price returned
\* by get_best_bid, and the ask price is the lowest key of asks, the price of
\* the first ask row and the price returned by get_best_ask.
C29_BBOAgreement ==
    \A s \in DOMAIN order_books :
        LET book == order_books[s]
            bbo == get_bbo(book)
            snapshot == get_order_book_snapshot(book)
        IN /\ (bbo.bid = NoQuote) <=> (DOMAIN book.bids = {})
           /\ (bbo.ask = NoQuote) <=> (DOMAIN book.asks = {})
           /\ DOMAIN book.bids # {} =>
                 /\ bbo.bid.price = ToString(SetMax(DOMAIN book.bids))
                 /\ Len(snapshot.bids) > 0
                 /\ bbo.bid.price = snapshot.bids[1][1]
                 /\ bbo.bid.price = ToString(get_best_bid(book)[1])
           /\ DOMAIN book.asks # {} =>
                 /\ bbo.ask.price = ToString(SetMin(DOMAIN book.asks))
                 /\ Len(snapshot.asks) > 0
                 /\ bbo.ask.price = snapshot.asks[1][1]
                 /\ bbo.ask.price = ToString(get_best_ask(book)[1])

\* After a match, a book with two ask levels and no bid: one side of the BBO
\* is None and the other has a best and a worse price to choose from.
C29_Witness ==
    /\ Len(trades) > 0
    /\ \E s \in DOMAIN order_books :
          /\ DOMAIN order_books[s].bids = {}
          /\ Cardinality(DOMAIN order_books[s].asks) = 2
          /\ get_bbo(order_books[s]).bid = NoQuote
          /\ get_bbo(order_books[s]).ask # NoQuote

\* ---- C30 -----------------------------------------------------------------
\* order_books as they stand before and after the process_order call in
\* progress, or as they stand when no handler is running
BoundaryBooks ==
    IF event_loop = Idle THEN {order_books}
    ELSE {event_loop[1].before,
          [event_loop[1].call.books EXCEPT ![event_loop[1].symbol] =
              event_loop[1].call.m.book]}

\* C30: the depth snapshot or the BBO that a read handler returns is the depth
\* snapshot or the BBO of the book as it stood entirely before or entirely
\* after the process_order call of a create_order request, never of the book
\* between two statements of a match.
C30_SnapshotIsolation ==
    [][\A symbol \in SubmitSymbols :
          /\ GetOrderBook(symbol) =>
                \E books \in BoundaryBooks :
                    last'.view = get_order_book_snapshot(BookOf(books, symbol))
          /\ GetBBO(symbol) =>
                \E books \in BoundaryBooks :
                    last'.view = get_bbo(BookOf(books, symbol))]_vars

\* A depth read answered after a create_order whose match took two price
\* levels, one after the other, has returned.
C30_Witness ==
    /\ last.op = "get_order_book"
    /\ event_loop = Idle
    /\ Len(trades) = 2
    /\ trades[1].taker_order_id = trades[2].taker_order_id
    /\ trades[1].price # trades[2].price

\* ---- C31 -----------------------------------------------------------------
\* C31: a DELETE /api/orders request for which cancel_order returned None (the
\* symbol has no book, or the book does not index the order id) is answered
\* with status 404.
C31_CancelUnknown404 ==
    [][\A order_id \in OrderIds, symbol \in SubmitSymbols :
          (CancelOrderRequest(order_id, symbol) /\ last'.result = None)
          => response'.status_code = 404]_vars

\* ---- C32 -----------------------------------------------------------------
\* C32: a POST /api/orders request with an unknown side or type, a
\* non-positive quantity, or a missing or non-positive price on a non-market
\* order is answered with status 400, and the order books, the Order objects,
\* the orders received by process_order and the trade log stay as they were.
C32_InvalidRequest400 ==
    [][\A side \in RequestSides, order_type \in RequestTypesAny,
         quantity \in AnyQuantities, price \in AnyPrices :
          CreateOrderRejects(side, order_type, quantity, price)
          => /\ response'.status_code = 400
             /\ UNCHANGED <<order_books, allOrders, admitted, trades, last>>]_vars

\* ---- C33 -----------------------------------------------------------------
\* C33: process_order called with an order whose status is not PENDING raises
\* to its caller, makes no trade and leaves the order books as they were.
C33_RejectNonPending ==
    [][\A id \in DOMAIN allOrders :
          (ResubmitOrder(id) /\ allOrders[id].status # PENDING)
          => /\ last'.result = Raised
             /\ last'.matched = <<>>
             /\ order_books' = order_books]_vars

\* ---- C34 -----------------------------------------------------------------
\* the taker of the call in progress, and the side of the book it matches
Incoming(os) == os[Frame.order_id]
OppositeLevels(books) == opposite_map(books[Frame.symbol], allOrders[Frame.order_id].side)

\* one pass of the inner loop: a trade of positive quantity, after which the
\* taker has nothing remaining or the head maker is FILLED and out of the queue
InnerPassProgress ==
    InnerIteration =>
        LET made == event_loop'[1].trades
            trade == made[Len(made)]
        IN /\ Len(made) = Len(Frame.trades) + 1
           /\ trade.quantity > 0
           /\ \/ Incoming(allOrders').remaining_quantity = 0
              \/ /\ allOrders'[trade.maker_order_id].status = FILLED
                 /\ trade.maker_order_id \notin
                       Range(OppositeLevels(order_books')[Frame.level].orders)

\* the end of one pass of the outer loop: its level is deleted, or the taker
\* is exhausted and the loop test fails
OuterPassProgress ==
    OuterIterationEnd =>
        \/ Frame.level \notin DOMAIN OppositeLevels(order_books')
        \/ /\ Incoming(allOrders').remaining_quantity = 0
           /\ ~outer_condition([book |-> order_books'[Frame.symbol], os |-> allOrders'],
                               Frame.order_id, Frame.priced)

\* C34: every process_order call that has started returns; each pass of its
\* inner loop makes a trade of strictly positive quantity and leaves either
\* the taker with nothing remaining or the head maker FILLED and out of the
\* level's queue; each pass of the outer loop ends with its level deleted or
\* with the taker exhausted, which ends the match.
C34_Termination ==
    /\ [][InnerPassProgress /\ OuterPassProgress]_vars
    /\ (event_loop # Idle) ~> (event_loop = Idle)

\* A call that took two price levels, one after the other, has returned.
C34_Witness ==
    /\ event_loop = Idle
    /\ last.op = "process_order"
    /\ Len(last.matched) = 2
    /\ last.matched[1].price # last.matched[2].price

\* ---- C35 -----------------------------------------------------------------
\* C35: PriceLevel.remove_order of a queued order returns it, and the orders
\* that stay are handed out by successive get_oldest_order/pop_oldest_order
\* calls in the sequence they had before, with the removed order left out;
\* remove_order of an id that is not queued returns None and leaves the level
\* as it was.
C35_RemoveKeepsOrder ==
    [][\A order_id \in OrderIds :
          LevelRemoveOrder(order_id) =>
              IF order_id \in Range(lone_level.orders)
              THEN /\ last'.result = order_id
                   /\ PopSequence(allOrders, lone_level'.orders) =
                        Without(PopSequence(allOrders, lone_level.orders), order_id)
              ELSE /\ last'.result = None
                   /\ lone_level' = lone_level]_vars

\* remove_order took the oldest of three queued orders from the head of the
\* list, and two orders stay queued
C35_Witness ==
    /\ last.op = "PriceLevel.remove_order" /\ last.result # None
    /\ Len(lone_level.orders) = 2
    /\ EntryLess(allOrders, last.result, lone_level.orders[1])
    /\ EntryLess(allOrders, last.result, lone_level.orders[2])

\* ---- C36 -----------------------------------------------------------------
\* a depth or BBO read for a symbol: a missing book is created empty, every
\* existing book is the one it was
ReadRefersToBook ==
    last'.op \in {"get_order_book", "get_bbo"} =>
        /\ DOMAIN order_books' = DOMAIN order_books \cup {last'.symbol}
        /\ \A s \in DOMAIN order_books : order_books'[s] = order_books[s]
        /\ last'.symbol \notin DOMAIN order_books =>
               order_books'[last'.symbol] = OrderBook(last'.symbol)

\* process_order: only the book of the order's symbol is touched; a missing
\* one is created and holds at most the order, an existing one keeps its index
SubmitRefersToBook ==
    (last'.op = "process_order" /\ Len(admitted') = Len(admitted) + 1) =>
        LET o == allOrders'[admitted'[Len(admitted')]]
        IN /\ DOMAIN order_books' = DOMAIN order_books \cup {o.symbol}
           /\ \A s \in DOMAIN order_books \ {o.symbol} :
                 order_books'[s] = order_books[s]
           /\ IF o.symbol \in DOMAIN order_books
              THEN order_books[o.symbol].orders \subseteq order_books'[o.symbol].orders
              ELSE order_books'[o.symbol].orders \subseteq {o.order_id}

\* cancel_order: no book is created, and the only book that can change is the
\* one named in the call, which held the order
CancelRefersToBook ==
    last'.op = "cancel_order" =>
        /\ DOMAIN order_books' = DOMAIN order_books
        /\ \A s \in DOMAIN order_books :
              order_books'[s] # order_books[s] =>
                  /\ last'.result # None
                  /\ allOrders[last'.result].symbol = s
                  /\ last'.result \in order_books[s].orders

\* C36: books are per symbol and independent: the first reference to a symbol
\* by a submit, a depth read or a BBO read creates one empty book for it, a
\* later reference finds that book, no book is ever removed or replaced by a
\* new one, and process_order and cancel_order for one symbol leave the books
\* of the other symbols as they were.
C36_BooksPerSymbol ==
    [][/\ DOMAIN order_books \subseteq DOMAIN order_books'
       /\ Cardinality(DOMAIN order_books' \ DOMAIN order_books) <= 1
       /\ ReadRefersToBook
       /\ SubmitRefersToBook
       /\ CancelRefersToBook]_vars

\* Both books exist, the ETH-USDT book holds an order, and the last call
\* cancelled an order of the BTC-USDT book.
C36_Witness ==
    /\ DOMAIN order_books = Symbols
    /\ order_books["ETH-USDT"].orders # {}
    /\ last.op = "cancel_order" /\ last.result # None
    /\ allOrders[last.result].symbol = "BTC-USDT"

\* ---- C37 -----------------------------------------------------------------
\* C37: every trade, in the engine's log and in the list a process_order call
\* made, has quantity > 0; and between calls every order queued in a price
\* level has remaining_quantity > 0, a maker filled to 0 having been popped by
\* the call that filled it.
C37_PositiveTrades ==
    /\ \A i \in 1..Len(trades) : trades[i].quantity > 0
    /\ last.op = "process_order" =>
           \A i \in 1..Len(last.matched) : last.matched[i].quantity > 0
    /\ \A k \in AllLevels :
           \A i \in 1..Len(LevelAt(k).orders) :
               /\ allOrders[LevelAt(k).orders[i]].remaining_quantity > 0
               /\ allOrders[LevelAt(k).orders[i]].status # FILLED

\* A call traded with two makers of one level: the first was filled and is no
\* longer queued, the second was filled in part and still is.
C37_Witness ==
    /\ last.op = "process_order" /\ Len(last.matched) = 2
    /\ allOrders[last.matched[1].maker_order_id].remaining_quantity = 0
    /\ \E k \in AllLevels :
           /\ last.matched[2].maker_order_id \in Range(LevelAt(k).orders)
           /\ last.matched[1].maker_order_id \notin Range(LevelAt(k).orders)
           /\ last.matched[1].price = k[3]

\* ---- C38 -----------------------------------------------------------------
\* the trades of the engine's log that name an order as maker or as taker
TradesNaming(id) ==
    SelectSeq(trades, LAMBDA t : t.maker_order_id = id \/ t.taker_order_id = id)
FilledOn(side) ==
    SetSum({id \in DOMAIN allOrders : allOrders[id].side = side},
           [id \in DOMAIN allOrders |-> allOrders[id].filled_quantity])

\* C38: between calls, every order's filled_quantity is the sum of the
\* quantities of the trades of MatchingEngine.trades that name it as maker or
\* as taker, and the quantity filled on BUY orders equals the quantity filled
\* on SELL orders.
C38_FillAccounting ==
    /\ \A id \in DOMAIN allOrders :
           allOrders[id].filled_quantity = TradedQuantity(TradesNaming(id))
    /\ FilledOn(BUY) = FilledOn(SELL)

\* ---- C39 -----------------------------------------------------------------
\* trade tr was made by a process_order call for order id, seen from the state
\* before the call: the maker rests in the book of the trade's symbol on the
\* side opposite to the taker's, and the taker is in no index and no queue
BetweenRestingAndIncoming(tr, id) ==
    LET maker == tr.maker_order_id
        taker == tr.taker_order_id
    IN /\ taker = id
       /\ maker # taker
       /\ allOrders'[maker].symbol = tr.symbol
       /\ allOrders'[taker].symbol = tr.symbol
       /\ allOrders'[maker].side # allOrders'[taker].side
       /\ maker \in DOMAIN allOrders
       /\ \E k \in AllLevels :
              /\ k[1] = tr.symbol
              /\ k[2] = allOrders[maker].side
              /\ k[3] = tr.price
              /\ maker \in Queued(k)
       /\ \A s \in DOMAIN order_books : taker \notin order_books[s].orders
       /\ \A k \in AllLevels : taker \notin Queued(k)

\* C39: when every order passed to process_order is fresh, every trade of a
\* call has the call's order as taker and another order as maker, both of the
\* trade's symbol and on opposite sides; the maker was queued in that
\* symbol's book before the call and the taker was in no book.
C39_MakerTakerDistinct ==
    [][(last'.op = "process_order" /\ Len(admitted') = Len(admitted) + 1) =>
          \A i \in 1..Len(last'.matched) :
              BetweenRestingAndIncoming(last'.matched[i], admitted'[Len(admitted')])]_vars

\* A BTC-USDT call traded while the ETH-USDT book held an order on the
\* maker's side, which stays queued.
C39_Witness ==
    /\ last.op = "process_order" /\ last.matched # <<>>
    /\ last.matched[1].symbol = "BTC-USDT"
    /\ \E k \in AllLevels :
           /\ k[1] = "ETH-USDT"
           /\ k[2] = allOrders[last.matched[1].maker_order_id].side

\* ---- C40 -----------------------------------------------------------------
ReadOps == {"get_order", "get_best_bid", "get_best_ask",
            "get_order_book_snapshot", "get_bbo"}

\* the trades a MARKET order for all the quantity there can be would make on
\* books `books` holding the orders `os`
SweepTrades(books, os, side) ==
    process_order(books,
                  MapPut(os, 0, Order(0, "BTC-USDT", side, MARKET,
                                      MaxOrders * MaxQty, NoPrice, 1)),
                  0).m.trades

\* C40: get_order, get_best_bid, get_best_ask, get_order_book_snapshot and
\* get_bbo on an existing book leave both price maps with every level's queue
\* and total_quantity, the order index, every order and the trade log as they
\* were, so the trades a later order makes are the same with the read as
\* without it.
C40_ReadsDoNotMutate ==
    [][(last'.op \in ReadOps /\ last'.symbol \in DOMAIN order_books) =>
          /\ order_books' = order_books
          /\ allOrders' = allOrders
          /\ trades' = trades
          /\ \A side \in OrderSide :
                SweepTrades(order_books', allOrders', side) =
                    SweepTrades(order_books, allOrders, side)]_vars

\* get_order has returned an order that is queued in a level, after trades
\* were made
C40_Witness ==
    /\ last.op = "get_order" /\ last.view # None
    /\ trades # <<>>
    /\ \E k \in AllLevels : last.view \in Queued(k)

====
